---- MODULE Spec2Model ----
(***************************************************************************)
(* A model of the header-inference and record-extraction pipeline of       *)
(* Knowledge-Base-LangChain:                                               *)
(*   workspace/data_preprocessing/config_generator.py  (configuration)     *)
(*   workspace/data_preprocessing/data_processor.py    (extraction)        *)
(*   dockerfile/base/workspace/pre_process/*.py        (interactive form)  *)
(*                                                                         *)
(* A sheet is a rectangular grid of cells.  A cell is a string: "" is the  *)
(* empty cell (NaN once read), the members of IntCells are whole numbers   *)
(* held as integers, c \o ".0" is the same number held as a float, the     *)
(* members of FracCells are fractional floats, the members of              *)
(* TemporalCells are date/time values and everything else is text.  A      *)
(* column name is the sequence of the parts that ' - ' joins.              *)
(***************************************************************************)
EXTENDS Integers, Sequences, FiniteSets, TLC

(***************************************************************************)
(* Bounds of the model.                                                    *)
(***************************************************************************)
MaxRows == 4
MaxCols == 2

(***************************************************************************)
(* Cell values.                                                            *)
(***************************************************************************)
NaN == ""

IntCells == {"1", "5", "7", "100", "200"}

FloatOf(c) == c \o ".0"

WholeFloatCells == {FloatOf(c) : c \in IntCells}

IntOf(f) == CHOOSE c \in IntCells : FloatOf(c) = f

FracCells == {"2.5"}

TemporalCells == {"2024-01-01"}

IsInt(c) == c \in IntCells

IsFloat(c) == c \in WholeFloatCells \cup FracCells

IsNumber(c) == IsInt(c) \/ IsFloat(c)

IsTemporal(c) == c \in TemporalCells

\* str.strip() on the texts of the model: only these carry outer whitespace.
Strip(s) ==
  CASE s \in {" A ", "A ", " A"} -> "A"
    [] s = "  " -> ""
    [] OTHER -> s

\* str.lstrip() and str.rstrip() on the same texts: what strip() leaves of
\* the first and of the last part of a joined string.
LStrip(s) ==
  CASE s = " A " -> "A "
    [] s = "  " -> ""
    [] OTHER -> s

RStrip(s) ==
  CASE s = " A " -> " A"
    [] s = "  " -> ""
    [] OTHER -> s

\* str.replace('\n', ' ') on the texts of the model.
ReplaceNewlines(s) == IF s = "A\nB" THEN "A B" ELSE s

\* str(v) of a cell value as pandas holds it.
Str(c) == IF c = NaN THEN "nan" ELSE c

(***************************************************************************)
(* Sequences and grids.                                                    *)
(***************************************************************************)
\* The sequence with the elements of f, each one worked out once.
AsSeq(f) == f \o << >>

Range(s) == {s[i] : i \in 1..Len(s)}

Min2(a, b) == IF a < b THEN a ELSE b

NRows(g) == Len(g)

NCols(g) == IF Len(g) = 0 THEN 0 ELSE Len(g[1])

Column(g, j) == AsSeq([i \in 1..Len(g) |-> g[i][j]])

\* df_raw.T
Transpose(g) == AsSeq([j \in 1..NCols(g) |-> AsSeq([i \in 1..NRows(g) |-> g[i][j]])])

RowIsEmpty(row) == \A j \in 1..Len(row) : row[j] = NaN

\* Series.count(): the number of non-NaN cells of a row.
CountNonNull(row) == Cardinality({j \in 1..Len(row) : row[j] # NaN})

\* The openpyxl reader hands whole floats over as integers.
ConvertCell(c) == IF c \in WholeFloatCells THEN IntOf(c) ELSE c

ConvertGrid(g) ==
  AsSeq([i \in 1..Len(g) |-> AsSeq([j \in 1..Len(g[i]) |-> ConvertCell(g[i][j])])])

\* The reader drops the trailing empty rows of what it read.
RECURSIVE TrimTrailingRows(_)
TrimTrailingRows(g) ==
  IF Len(g) = 0 THEN g
  ELSE IF RowIsEmpty(g[Len(g)]) THEN TrimTrailingRows(SubSeq(g, 1, Len(g) - 1))
  ELSE g

(***************************************************************************)
(* Column types as the pandas parser infers them for a parsed column.      *)
(***************************************************************************)
InferDtype(vals) ==
  LET present == {vals[i] : i \in {k \in 1..Len(vals) : vals[k] # NaN}}
  IN  IF Len(vals) = 0 THEN "object"
      ELSE IF \A c \in present : IsInt(c)
           THEN (IF present = Range(vals) THEN "int64" ELSE "float64")
      ELSE IF \A c \in present : IsNumber(c) THEN "float64"
      ELSE IF \A c \in present : IsTemporal(c) THEN "datetime64"
      ELSE "object"

\* A value as a column of the given type holds it.
StoreAs(dtype, c) ==
  IF dtype = "float64" /\ IsInt(c) THEN FloatOf(c) ELSE c

\* The common type of the columns of a frame (DataFrame.values, DataFrame.T).
CommonDtype(dtypes) ==
  IF Len(dtypes) = 0 THEN "object"
  ELSE IF \A i \in 1..Len(dtypes) : dtypes[i] = "int64" THEN "int64"
  ELSE IF \A i \in 1..Len(dtypes) : dtypes[i] \in {"int64", "float64"} THEN "float64"
  ELSE IF \A i \in 1..Len(dtypes) : dtypes[i] = "datetime64" THEN "datetime64"
  ELSE "object"

(***************************************************************************)
(* A frame: columns (names), dtypes, index (row labels) and data (row-major *)
(* cells), with the sheet row each frame row was read from (src) and the   *)
(* sheet column each frame column was read from (pos).                     *)
(***************************************************************************)
EmptyFrame == [columns |-> << >>, dtypes |-> << >>, index |-> << >>,
               src |-> << >>, pos |-> << >>, data |-> << >>]

\* DataFrame.empty
\* A frame with every label and every cell worked out once.
Frame(f) ==
  [columns |-> AsSeq(f.columns), dtypes |-> AsSeq(f.dtypes), index |-> AsSeq(f.index),
   src |-> AsSeq(f.src), pos |-> AsSeq(f.pos),
   data |-> AsSeq([i \in 1..Len(f.data) |-> AsSeq(f.data[i])])]

FrameIsEmpty(f) == Len(f.columns) = 0 \/ Len(f.data) = 0

\* pd.read_excel(header=None, nrows=n): integer column labels 0..w-1.
ReadNoHeader(g, nrows) ==
  LET rows  == TrimTrailingRows(ConvertGrid(SubSeq(g, 1, Min2(nrows, Len(g)))))
      w     == NCols(g)
      dts   == AsSeq([j \in 1..w |-> InferDtype(Column(rows, j))])
  IN  IF Len(rows) = 0 THEN EmptyFrame
      ELSE Frame([columns |-> [j \in 1..w |-> j - 1],
                  dtypes  |-> dts,
                  index   |-> [i \in 1..Len(rows) |-> i - 1],
                  src     |-> [i \in 1..Len(rows) |-> i],
                  pos     |-> [j \in 1..w |-> j],
                  data    |-> [i \in 1..Len(rows) |->
                                [j \in 1..w |-> StoreAs(dts[j], rows[i][j])]]])

(***************************************************************************)
(* Header names as pd.read_excel(header=...) builds them.                  *)
(***************************************************************************)
\* The placeholder of an empty header cell; i is the zero-based position.
UnnamedName(i) == "Unnamed: " \o ToString(i)

UnnamedLevelName(i, level) ==
  "Unnamed: " \o ToString(i) \o "_level_" \o ToString(level)

\* s.startswith('Unnamed:') for the names of a frame read from w columns
\* with a header of m rows.
StartsWithUnnamed(s, w, m) ==
  \E i \in 0..(w - 1) :
    \/ s = UnnamedName(i)
    \/ \E level \in 0..(m - 1) : s = UnnamedLevelName(i, level)

\* pandas.io.excel fill_mi_header: forward-fill the blank cells of a header
\* row, but only inside the same parent of the rows above.
RECURSIVE FillMiFrom(_, _, _, _)
FillMiFrom(row, control_row, i, last) ==
  IF i > Len(row) THEN [row |-> row, control_row |-> control_row]
  ELSE LET last1 == IF ~control_row[i] THEN row[i] ELSE last
       IN  IF row[i] = NaN
           THEN FillMiFrom([row EXCEPT ![i] = last1], control_row, i + 1, last1)
           ELSE FillMiFrom(row, [control_row EXCEPT ![i] = FALSE], i + 1, row[i])

FillMiHeader(row, control_row) ==
  IF Len(row) = 0 THEN [row |-> row, control_row |-> control_row]
  ELSE FillMiFrom(row, control_row, 2, row[1])

\* The header rows of a multi-row header after fill_mi_header, top first.
RECURSIVE FillLevels(_, _)
FillLevels(rows, control_row) ==
  IF Len(rows) = 0 THEN << >>
  ELSE LET f == FillMiHeader(rows[1], control_row)
       IN  <<f.row>> \o FillLevels(Tail(rows), f.control_row)

\* The parser renames a repeated column name: name, name.1, name.2, ...
MangleDupes(names) ==
  AsSeq([i \in 1..Len(names) |->
     LET cnt == Cardinality({j \in 1..(i - 1) : names[j] = names[i]})
         n   == Len(names[i])
     IN  IF cnt = 0 \/ n = 0 THEN names[i]
         ELSE [names[i] EXCEPT ![n] = names[i][n] \o "." \o ToString(cnt)]])

\* header=<one row>: the labels of the columns, each a one-part name.
SingleHeaderNames(row) ==
  MangleDupes(AsSeq([j \in 1..Len(row) |->
     IF row[j] = NaN THEN <<UnnamedName(j - 1)>> ELSE <<row[j]>>]))

\* header=<several rows>: one tuple of level labels per column.
MultiHeaderTuples(levels) ==
  LET w == Len(levels[1])
  IN  MangleDupes(AsSeq([j \in 1..w |->
        AsSeq([l \in 1..Len(levels) |->
           IF levels[l][j] = NaN THEN UnnamedLevelName(j - 1, l - 1)
           ELSE levels[l][j]])]))

\* The parser refuses a multi-row header one of whose levels names no column.
SomeLevelAllUnnamed(levels) ==
  \E l \in 1..Len(levels) : RowIsEmpty(levels[l])

\* ' - '.join(str(c).strip() for c in col if not isna(c) and str(c).strip()
\*            and not str(c).strip().startswith('Unnamed:'))
MergeHeaderTuple(col, w, m) ==
  LET kept == SelectSeq(col, LAMBDA c :
                c # NaN /\ Strip(c) # "" /\ ~StartsWithUnnamed(Strip(c), w, m))
  IN  AsSeq([i \in 1..Len(kept) |-> Strip(kept[i])])

\* The header rows taken one row too high.
HeaderIndicesShifted(header_index, merge_rows_count) ==
  [i \in 1..(IF merge_rows_count > 0 THEN merge_rows_count ELSE 0) |->
     header_index - merge_rows_count + i - 1]

\* header_indices = list(range(header_index - merge_rows_count + 1, header_index + 1))
HeaderIndices(header_index, merge_rows_count) ==
  [i \in 1..(IF merge_rows_count > 0 THEN merge_rows_count ELSE 0) |->
     header_index - merge_rows_count + i]

\* The data rows of a sheet read below the header row with zero-based index last.
MainFrame(g, names, last) ==
  LET rows == AsSeq([i \in 1..(Len(g) - last - 1) |-> g[last + 1 + i]])
      w    == Len(names)
      dts  == AsSeq([j \in 1..w |-> InferDtype(Column(rows, j))])
  IN  Frame([columns |-> names,
             dtypes  |-> dts,
             index   |-> [i \in 1..Len(rows) |-> i - 1],
             src     |-> [i \in 1..Len(rows) |-> last + 1 + i],
             pos     |-> [j \in 1..w |-> j],
             data    |-> [i \in 1..Len(rows) |->
                           [j \in 1..w |-> StoreAs(dts[j], rows[i][j])]]])

LoadFailed == [ok |-> FALSE, df_main |-> EmptyFrame, df_pre_header |-> EmptyFrame,
               before_header_rows_count |-> 0]

\* load_data_from_sheet: the main frame and the frame of the rows before the
\* header; ok is FALSE when it raises.
LoadDataFromSheet(grid0, header_index, merge_rows_count) ==
  LET g == ConvertGrid(grid0)
      header_indices == HeaderIndices(header_index, merge_rows_count)
  IN  IF Len(header_indices) = 0 THEN LoadFailed
      ELSE
      LET before_header_rows_count == header_indices[1]
          w == NCols(g)
      IN  IF before_header_rows_count < 0 \/ header_index > Len(g) - 1 THEN LoadFailed
          ELSE IF merge_rows_count > 1
          THEN LET levels == FillLevels(
                               [l \in 1..Len(header_indices) |-> g[header_indices[l] + 1]],
                               [j \in 1..w |-> TRUE])
                   tuples == MultiHeaderTuples(levels)
               IN  IF SomeLevelAllUnnamed(levels) THEN LoadFailed
                   ELSE [ok |-> TRUE,
                         df_main |-> MainFrame(g,
                            [j \in 1..w |-> MergeHeaderTuple(tuples[j], w, merge_rows_count)],
                            header_index),
                         df_pre_header |-> ReadNoHeader(grid0, before_header_rows_count),
                         before_header_rows_count |-> before_header_rows_count]
          ELSE [ok |-> TRUE,
                df_main |-> MainFrame(g, SingleHeaderNames(g[header_index + 1]), header_index),
                df_pre_header |-> ReadNoHeader(grid0, before_header_rows_count),
                before_header_rows_count |-> before_header_rows_count]

(***************************************************************************)
(* excluded_rows of a SheetConfig: a sequence of entries [k, a, b] with    *)
(*   k = "int"   the integer a                                             *)
(*   k = "range" the string 'a-b' of two integers                          *)
(*   k = "bad"   a string with '-' that int() or the unpacking refuses     *)
(*   k = "str"   any other value (a string without '-', a float, null)     *)
(***************************************************************************)
IntEntry(n) == [k |-> "int", a |-> n, b |-> n]

RangeEntry(lo, hi) == [k |-> "range", a |-> lo, b |-> hi]

BadEntry == [k |-> "bad", a |-> 0, b |-> 0]

StrEntry == [k |-> "str", a |-> 0, b |-> 0]

\* One pass of a loop that takes the integers alone.
ParseItemIntegersOnly(excluded, item) ==
  IF item.k = "int" THEN excluded \cup {item.a} ELSE excluded

\* One pass of the loop of _parse_excluded_rows.
ParseItem(excluded, item) ==
  IF item.k = "int" THEN excluded \cup {item.a}
  ELSE IF item.k = "range" /\ item.a <= item.b THEN excluded \cup (item.a .. item.b)
  ELSE excluded

RECURSIVE ParseFrom(_, _, _)
ParseFrom(excluded_rows_config, i, excluded) ==
  IF i > Len(excluded_rows_config) THEN excluded
  ELSE ParseFrom(excluded_rows_config, i + 1, ParseItem(excluded, excluded_rows_config[i]))

\* _parse_excluded_rows
ParseExcludedRows(excluded_rows_config) == ParseFrom(excluded_rows_config, 1, {})

\* The "Could not parse range" warnings _parse_excluded_rows prints.
ParseWarnings(excluded_rows_config) ==
  Cardinality({i \in 1..Len(excluded_rows_config) : excluded_rows_config[i].k = "bad"})

(***************************************************************************)
(* Operations on frames.                                                   *)
(***************************************************************************)
\* The positions of a sequence that satisfy keep, in order.
RECURSIVE KeptPositions(_, _, _)
KeptPositions(n, keep, i) ==
  IF i > n THEN << >>
  ELSE (IF i \in keep THEN <<i>> ELSE << >>) \o KeptPositions(n, keep, i + 1)

SelectColumns(f, keep) ==
  LET pos == KeptPositions(Len(f.columns), keep, 1)
  IN  Frame([f EXCEPT !.columns = [j \in 1..Len(pos) |-> f.columns[pos[j]]],
                      !.dtypes  = [j \in 1..Len(pos) |-> f.dtypes[pos[j]]],
                      !.pos     = [j \in 1..Len(pos) |-> f.pos[pos[j]]],
                      !.data    = [i \in 1..Len(f.data) |->
                                     [j \in 1..Len(pos) |-> f.data[i][pos[j]]]]])

SelectRows(f, keep) ==
  LET pos == KeptPositions(Len(f.data), keep, 1)
  IN  Frame([f EXCEPT !.index = [i \in 1..Len(pos) |-> f.index[pos[i]]],
                      !.src   = [i \in 1..Len(pos) |-> f.src[pos[i]]],
                      !.data  = [i \in 1..Len(pos) |-> f.data[pos[i]]]])

\* df.columns.str.strip(): the joined name loses its outer whitespace.
StripName(name) ==
  IF Len(name) = 1 /\ Strip(name[1]) = "" THEN << >>
  ELSE AsSeq([i \in 1..Len(name) |-> Strip(name[i])])

\* df.loc[:, ~df.columns.str.contains('^Unnamed:')], then str.strip()
DropUnnamedColumns(f, w, m) ==
  LET kept == SelectColumns(f, {j \in 1..Len(f.columns) :
                ~(Len(f.columns[j]) > 0 /\ StartsWithUnnamed(f.columns[j][1], w, m))})
  IN  Frame([kept EXCEPT !.columns =
                            [j \in 1..Len(kept.columns) |-> StripName(kept.columns[j])]])

\* Whether astype('Int64') accepts the column at position j.
Castable(f, j) ==
  \A i \in 1..Len(f.data) :
    LET c == f.data[i][j] IN c = NaN \/ IsInt(c) \/ c \in WholeFloatCells

\* for col in float_cols: try: df[col] = df[col].astype('Int64') except: pass
\* df[col] is every column that carries the label col.
CastFloatColumns(f) ==
  LET n == Len(f.columns)
      group(j) == {k \in 1..n : f.columns[k] = f.columns[j]}
      cast(j) == /\ \E k \in group(j) : f.dtypes[k] = "float64"
                 /\ \A k \in group(j) : Castable(f, k)
  IN  Frame([f EXCEPT !.dtypes = [j \in 1..n |-> IF cast(j) THEN "Int64" ELSE f.dtypes[j]],
                      !.data   = [i \in 1..Len(f.data) |-> [j \in 1..n |->
                                    IF cast(j) /\ f.data[i][j] \in WholeFloatCells
                                    THEN IntOf(f.data[i][j]) ELSE f.data[i][j]]]])

\* The pruning with how='any': a row with one empty cell goes too.
DropNaRowsAny(f) ==
  SelectRows(f, {i \in 1..Len(f.data) : \A j \in 1..Len(f.data[i]) : f.data[i][j] # NaN})

\* df.dropna(axis=0, how='all')
DropNaRows(f) ==
  SelectRows(f, {i \in 1..Len(f.data) : ~RowIsEmpty(f.data[i])})

\* The values of a frame row as iterrows() yields them: in the common type.
RowValues(f, i) ==
  LET common == CommonDtype(f.dtypes)
  IN  AsSeq([j \in 1..Len(f.columns) |-> StoreAs(common, f.data[i][j])])

\* ' '.join(row.dropna().astype(str)), then replace('\n', ' ').strip() when
\* it is not the empty string: the parts that ' ' joins, the outer
\* whitespace of the whole string removed.  A row whose texts are all
\* whitespace gives the empty sequence, which is the string ''.
CleanRow(f, i) ==
  LET vals  == SelectSeq(RowValues(f, i), LAMBDA c : c # NaN)
      n     == Len(vals)
      first == IF \E k \in 1..n : Strip(vals[k]) # ""
               THEN CHOOSE k \in 1..n : Strip(vals[k]) # "" /\ \A q \in 1..(k - 1) : Strip(vals[q]) = ""
               ELSE 1
      last  == IF \E k \in 1..n : Strip(vals[k]) # ""
               THEN CHOOSE k \in 1..n : Strip(vals[k]) # "" /\ \A q \in (k + 1)..n : Strip(vals[q]) = ""
               ELSE 0
  IN  AsSeq([k \in 1..(last - first + 1) |->
         ReplaceNewlines(
           IF first = last THEN Strip(vals[first])
           ELSE IF k = 1 THEN LStrip(vals[first])
           ELSE IF k = last - first + 1 THEN RStrip(vals[last])
           ELSE vals[first + k - 1])])

\* metadata_list: one entry per row of df_pre_header whose join is not ''.
MetadataList(f) ==
  LET rows == KeptPositions(Len(f.data), {i \in 1..Len(f.data) : ~RowIsEmpty(f.data[i])}, 1)
  IN  AsSeq([k \in 1..Len(rows) |-> CleanRow(f, rows[k])])

\* Whether ' | '.join(metadata_list) is the empty string.
IsEmptyString(metadata) ==
  Len(metadata) = 0 \/ (Len(metadata) = 1 /\ Len(metadata[1]) = 0)

(***************************************************************************)
(* _load_and_clean_sheet                                                   *)
(***************************************************************************)
\* df_raw.T.reset_index(drop=True): the cells of the whole sheet, transposed,
\* every column of the common type of the columns read.
TransposedData(grid0) ==
  LET raw    == ReadNoHeader(grid0, Len(grid0))
      common == CommonDtype(raw.dtypes)
  IN  [dtype |-> common,
       data  |-> AsSeq([j \in 1..Len(raw.columns) |->
                    AsSeq([i \in 1..Len(raw.data) |-> StoreAs(common, raw.data[i][j])])])]

\* ' - '.join([str(v).strip() for v in col_vals if pd.notna(v) and str(v).strip()])
ColumnModeMergedName(col_vals) ==
  LET kept == SelectSeq(col_vals, LAMBDA v : v # NaN /\ Strip(Str(v)) # "")
  IN  AsSeq([i \in 1..Len(kept) |-> Strip(Str(kept[i]))])

\* The column-mode branch of the try block: df_main and df_pre_header cut
\* out of the transposed sheet by position.
ColumnModeLoad(grid0, header_index, merge_rows_count) ==
  LET t  == TransposedData(grid0)
      nt == Len(t.data)
      w  == IF nt = 0 THEN 0 ELSE Len(t.data[1])
      header_indices == HeaderIndices(header_index, merge_rows_count)
      pos(i) == IF i < 0 THEN i + nt + 1 ELSE i + 1
  IN  IF Len(header_indices) = 0 THEN LoadFailed
      ELSE IF \E l \in 1..Len(header_indices) : pos(header_indices[l]) \notin 1..nt
      THEN LoadFailed
      ELSE
      LET header_rows == AsSeq([l \in 1..Len(header_indices) |-> t.data[pos(header_indices[l])]])
          names == AsSeq([j \in 1..w |->
                      IF merge_rows_count > 1
                      THEN ColumnModeMergedName(Column(header_rows, j))
                      ELSE <<Str(header_rows[1][j])>>])
          nmain == IF nt > header_index + 1 THEN nt - (header_index + 1) ELSE 0
          before_header_rows_count == header_indices[1]
          npre  == IF header_index + 1 > merge_rows_count
                   THEN Min2(before_header_rows_count, nt) ELSE 0
      IN  [ok |-> TRUE,
           df_main |-> Frame([columns |-> names,
                              dtypes  |-> [j \in 1..w |-> t.dtype],
                              index   |-> [i \in 1..nmain |-> header_index + i],
                              src     |-> [i \in 1..nmain |-> header_index + 1 + i],
                              pos     |-> [j \in 1..w |-> j],
                              data    |-> [i \in 1..nmain |-> t.data[header_index + 1 + i]]]),
           df_pre_header |-> IF npre = 0 THEN EmptyFrame
                             ELSE Frame([columns |-> [j \in 1..w |-> j - 1],
                                         dtypes  |-> [j \in 1..w |-> t.dtype],
                                         index   |-> [i \in 1..npre |-> i - 1],
                                         src     |-> [i \in 1..npre |-> i],
                                         pos     |-> [j \in 1..w |-> j],
                                         data    |-> [i \in 1..npre |-> t.data[i]]]),
           before_header_rows_count |-> before_header_rows_count]

\* The columns of the header+metadata block (rows 1..header_num) that are
\* entirely empty, as the labels of df_header_block.
ColsToDropIndices(grid0, header_num) ==
  LET df_header_block == ReadNoHeader(grid0, header_num)
  IN  {df_header_block.columns[j] : j \in
         {k \in 1..Len(df_header_block.columns) :
            \A i \in 1..Len(df_header_block.data) : df_header_block.data[i][k] = NaN}}

\* The exclusion with the rows counted from the header row itself.
ExcludeRowsFromHeader(df, excluded_rows, header_num) ==
  IF Len(excluded_rows) = 0 THEN [raised |-> FALSE, df |-> df, removed_rows |-> -1]
  ELSE
  LET parsed_excluded_rows == ParseExcludedRows(excluded_rows)
      indices_to_drop == {original_row - header_num : original_row \in
                            {r \in parsed_excluded_rows :
                               /\ 0 <= r - header_num
                               /\ r - header_num < Len(df.data)}}
      initial_rows == Len(df.data)
  IN  IF indices_to_drop = {} THEN [raised |-> FALSE, df |-> df, removed_rows |-> -1]
      ELSE IF ~(indices_to_drop \subseteq Range(df.index))
      THEN [raised |-> TRUE, df |-> df, removed_rows |-> -1]
      ELSE LET kept == SelectRows(df, {i \in 1..Len(df.data) : df.index[i] \notin indices_to_drop})
           IN  [raised |-> FALSE, df |-> kept, removed_rows |-> initial_rows - Len(kept.data)]

\* The row-exclusion step: [raised, df, removed_rows]; removed_rows is -1
\* when no count is reported.
ExcludeRows(df, excluded_rows, header_num) ==
  IF Len(excluded_rows) = 0 THEN [raised |-> FALSE, df |-> df, removed_rows |-> -1]
  ELSE
  LET parsed_excluded_rows == ParseExcludedRows(excluded_rows)
      indices_to_drop == {original_row - (header_num + 1) : original_row \in
                            {r \in parsed_excluded_rows :
                               /\ 0 <= r - (header_num + 1)
                               /\ r - (header_num + 1) < Len(df.data)}}
      initial_rows == Len(df.data)
  IN  IF indices_to_drop = {} THEN [raised |-> FALSE, df |-> df, removed_rows |-> -1]
      ELSE IF ~(indices_to_drop \subseteq Range(df.index))
      THEN [raised |-> TRUE, df |-> df, removed_rows |-> -1]
      ELSE LET kept == SelectRows(df, {i \in 1..Len(df.data) : df.index[i] \notin indices_to_drop})
           IN  [raised |-> FALSE, df |-> kept, removed_rows |-> initial_rows - Len(kept.data)]

NoResult == [outcome |-> "none", df |-> EmptyFrame, metadata_string |-> << >>,
             removed_rows |-> -1, warnings |-> 0, loaded |-> EmptyFrame,
             excluded |-> EmptyFrame, df_pre_header |-> EmptyFrame,
             before_header_rows_count |-> 0, header_rows |-> {}]

\* The try block: the frames of the sheet, by column mode or by
\* load_data_from_sheet.
LoadSheet(grid0, header_index, merge_rows_count, mode) ==
  IF mode = "column"
  THEN ColumnModeLoad(grid0, header_index, merge_rows_count)
  ELSE LoadDataFromSheet(grid0, header_index, merge_rows_count)

\* df_pre_header without the columns that are empty over the header block;
\* pre0 is the empty frame when no metadata is present.
PruneMetadataColumns(pre0, cols_to_drop_indices) ==
  IF cols_to_drop_indices # {} /\ ~FrameIsEmpty(pre0)
  THEN SelectColumns(pre0, {j \in 1..Len(pre0.columns) :
                              pre0.columns[j] \notin cols_to_drop_indices})
  ELSE pre0

\* What the function hands back once the rows are excluded: the null rows
\* pruned and the metadata string built.
CleanResult(header_config, loaded, df_pre_header, ex) ==
  LET header_num          == header_config.header_row
      merge_rows_count    == header_config.merge_rows
      is_metadata_present == header_num > merge_rows_count
      header_indices      == HeaderIndices(header_num - 1, merge_rows_count)
  IN  [outcome         |-> IF ex.raised THEN "raised" ELSE "ok",
       df              |-> IF ex.raised THEN EmptyFrame ELSE DropNaRows(ex.df),
       metadata_string |-> IF ~ex.raised /\ is_metadata_present /\ ~FrameIsEmpty(df_pre_header)
                           THEN MetadataList(df_pre_header) ELSE << >>,
       removed_rows    |-> ex.removed_rows,
       warnings        |-> ParseWarnings(header_config.excluded_rows),
       loaded          |-> loaded.df_main,
       excluded        |-> ex.df,
       df_pre_header   |-> df_pre_header,
       before_header_rows_count |->
          IF is_metadata_present THEN loaded.before_header_rows_count ELSE 0,
       header_rows     |-> {header_indices[l] + 1 : l \in 1..Len(header_indices)}]

\* The steps after the try block, on the frames that were loaded.
CleanLoaded(grid0, header_config, mode, loaded) ==
  LET header_num       == header_config.header_row
      merge_rows_count == header_config.merge_rows
  IN  IF ~loaded.ok THEN [NoResult EXCEPT !.outcome = "failed"]
      ELSE CleanResult(header_config, loaded,
             PruneMetadataColumns(
               IF header_num > merge_rows_count THEN loaded.df_pre_header ELSE EmptyFrame,
               IF mode = "row" THEN ColsToDropIndices(grid0, header_num) ELSE {}),
             ExcludeRows(
               CastFloatColumns(
                 DropUnnamedColumns(loaded.df_main, Len(loaded.df_main.columns),
                                    merge_rows_count)),
               header_config.excluded_rows, header_num))

\* _load_and_clean_sheet.  outcome is "ok" (a frame and a metadata string are
\* returned), "failed" ((None, None) is returned) or "raised" (an exception
\* leaves the function).  loaded is df as the load step produced it, excluded
\* is df after the row-exclusion step, and df_pre_header,
\* before_header_rows_count and header_rows are the metadata rows and the
\* header rows the load step read.
LoadAndCleanSheet(grid0, header_config, mode) ==
  CleanLoaded(grid0, header_config, mode,
              LoadSheet(grid0, header_config.header_row - 1, header_config.merge_rows, mode))

(***************************************************************************)
(* _format_records                                                         *)
(***************************************************************************)
None == "None"

\* A value of a record: NaN and <NA> become None; a date-and-time value at
\* midnight is its ISO date, which is how the model writes temporal cells.
FormatValue(v) == IF v = NaN THEN None ELSE v

\* df.to_dict(orient='records') keeps, for a repeated column name, the value
\* of the last column that carries it.
FormatRecords(df, metadata_string) ==
  IF FrameIsEmpty(df) THEN << >>
  ELSE [i \in 1..Len(df.data) |->
          [src       |-> df.src[i],
           vals      |-> [name \in Range(df.columns) |->
                            LET j == CHOOSE k \in 1..Len(df.columns) :
                                       /\ df.columns[k] = name
                                       /\ \A q \in (k + 1)..Len(df.columns) : df.columns[q] # name
                            IN  FormatValue(df.data[i][j])],
           has_extra |-> ~IsEmptyString(metadata_string),
           ExtraInfo |-> IF IsEmptyString(metadata_string) THEN << >> ELSE metadata_string]]

(***************************************************************************)
(* detect_header_and_merge_count (config_generator.py).                    *)
(***************************************************************************)
\* The default of the max_scan_rows parameter.
DefaultMaxScanRows == 20

SetMax(S) == CHOOSE x \in S : \A y \in S : y <= x

SetMin(S) == CHOOSE x \in S : \A y \in S : x <= y

\* isinstance(val, (int, float, complex)) or a date/time value
IsNumericOrDate(val) == IsNumber(val) \/ IsTemporal(val)

\* numeric_count and total_count of one scanned row
NumericCount(row) == Cardinality({j \in 1..Len(row) : row[j] # NaN /\ IsNumericOrDate(row[j])})

\* The test with a ratio of exactly 0.4 let through.
IsDataRowAtLeast(row) ==
  LET numeric_count == NumericCount(row)
      total_count   == CountNonNull(row)
  IN  total_count > 0 /\ 10 * numeric_count >= 4 * total_count

\* total_count > 0 and ratio > 0.4, with ratio = numeric_count / total_count:
\* the quotient exceeds 0.4 exactly when 10 * numeric_count > 4 * total_count.
IsDataRow(row) ==
  LET numeric_count == NumericCount(row)
      total_count   == CountNonNull(row)
  IN  total_count > 0 /\ 10 * numeric_count > 4 * total_count

\* The number of non-empty rows at zero-based indices 0..i of df, with no
\* stop at an empty row.
NonEmptyRowsUp(df, i) ==
  Cardinality({k \in 0..i : CountNonNull(df.data[k + 1]) > 0})

\* The upward scans: the number of consecutive non-empty rows at zero-based
\* indices i, i-1, ... of df.
RECURSIVE NonEmptyRunUp(_, _)
NonEmptyRunUp(df, i) ==
  IF i < 0 THEN 0
  ELSE IF CountNonNull(df.data[i + 1]) > 0 THEN 1 + NonEmptyRunUp(df, i - 1)
  ELSE 0

\* The last zero-based index whose row has the largest non-null count.
MaxNonNullLastIdx(df) ==
  CHOOSE i \in 0..(Len(df.data) - 1) :
    /\ \A k \in 0..(Len(df.data) - 1) :
         CountNonNull(df.data[k + 1]) <= CountNonNull(df.data[i + 1])
    /\ \A k \in (i + 1)..(Len(df.data) - 1) :
         CountNonNull(df.data[k + 1]) < CountNonNull(df.data[i + 1])

\* The first zero-based index whose row has the largest non-null count.
MaxNonNullIdx(df) ==
  SetMin({i \in 0..(Len(df.data) - 1) :
            \A k \in 0..(Len(df.data) - 1) :
               CountNonNull(df.data[k + 1]) <= CountNonNull(df.data[i + 1])})

\* The pair (header_row_number, merge_rows_count) the function returns when
\* the sheet can be read.
DetectHeaderAndMergeCount(g, max_scan_rows) ==
  LET df == ReadNoHeader(g, max_scan_rows)
  IN  IF FrameIsEmpty(df) THEN <<1, 1>>
      ELSE
      LET DataIdx == {i \in 0..(Len(df.data) - 1) : IsDataRow(df.data[i + 1])}
          first_data_idx == IF DataIdx = {} THEN -1 ELSE SetMin(DataIdx)
      IN  IF first_data_idx > 0
          THEN LET header_end_idx == first_data_idx - 1
               IN  <<header_end_idx + 1, NonEmptyRunUp(df, header_end_idx)>>
          ELSE IF first_data_idx = 0 THEN <<1, 1>>
          ELSE LET header_end_idx == MaxNonNullIdx(df)
               IN  <<header_end_idx + 1, 1 + NonEmptyRunUp(df, header_end_idx - 1)>>

\* The call with the except clause left out: the pair is computed although
\* the read of the sheet failed.
DetectIgnoringFailure(g, max_scan_rows, failed) ==
  DetectHeaderAndMergeCount(g, max_scan_rows)

\* detect_header_and_merge_count with its try/except: when the read of the
\* sheet fails, the exception is caught, a warning is printed and (1, 1) is
\* returned.
DetectOrDefault(g, max_scan_rows, failed) ==
  IF failed THEN <<1, 1>> ELSE DetectHeaderAndMergeCount(g, max_scan_rows)

(***************************************************************************)
(* generate_config, automatic (workspace/data_preprocessing).              *)
(***************************************************************************)
\* get_sheet_info: the sheet names of the workbook, a ValueError for a file
\* whose extension is neither .xlsx nor .xls, and sys.exit(1) when the
\* workbook cannot be opened.
GetSheetInfo(source, sheets) ==
  IF source.extension \notin {".xlsx", ".xls"}
  THEN [raised |-> "ValueError", sheet_names |-> << >>]
  ELSE IF ~source.exists
  THEN [raised |-> "SystemExit", sheet_names |-> << >>]
  ELSE [raised |-> "none", sheet_names |-> AsSeq([i \in 1..Len(sheets) |-> sheets[i].name])]

\* The builder with detection run on the transposed sheet in column mode.
SheetDetectionOnTranspose(g, mode) ==
  IF mode = "column" THEN DetectHeaderAndMergeCount(Transpose(g), DefaultMaxScanRows)
  ELSE DetectHeaderAndMergeCount(g, DefaultMaxScanRows)

\* The (header_num, merge_rows_count) of one sheet.
SheetDetection(g, mode) ==
  IF mode = "column" THEN <<1, 1>>
  ELSE DetectHeaderAndMergeCount(g, DefaultMaxScanRows)

\* The entry config_data["sheets"][sheet_name].
AutoSheetConfig(g, mode) ==
  LET d == SheetDetection(g, mode)
  IN  [header_row |-> d[1], merge_rows |-> d[2], excluded_rows |-> << >>]

(***************************************************************************)
(* generate_config, interactive (dockerfile/base/workspace/pre_process).   *)
(***************************************************************************)
\* A piece of the comma-separated answer: digits (an integer), a range
\* 'a-b', or anything else ("x", "-3", ""); isdigit() rejects the last two.
DigitToken(n) == [digits |-> TRUE, n |-> n]

RangeToken(a, b) == [digits |-> FALSE, n |-> 0, range |-> <<a, b>>]

OtherToken == [digits |-> FALSE, n |-> 0]

\* rows = [int(r) for r in input_str.split(',') if r.strip().isdigit()]
TokenRows(tokens) == {tokens[i].n : i \in {k \in 1..Len(tokens) : tokens[k].digits}}

\* The answer refused only when some row lies above the header row.
AnswerRefusedAbove(tokens, header_row) ==
  Len(tokens) > 0 /\ \E r \in TokenRows(tokens) : r < header_row

\* The answer is refused when some row is not below the header.
AnswerRefused(tokens, header_row) ==
  Len(tokens) > 0 /\ \E r \in TokenRows(tokens) : r <= header_row

RECURSIVE SortedSeq(_)
SortedSeq(S) ==
  IF S = {} THEN << >> ELSE <<SetMin(S)>> \o SortedSeq(S \ {SetMin(S)})

\* sorted(list(set(rows))), as entries of excluded_rows
AnswerRows(tokens) ==
  LET rows == SortedSeq(TokenRows(tokens))
  IN  [i \in 1..Len(rows) |-> IntEntry(rows[i])]

\* merge_rows_count after the check against header_num
NormalizeMerge(header_num, merge_rows_count) ==
  IF merge_rows_count > header_num THEN header_num ELSE merge_rows_count

(***************************************************************************)
(* State.                                                                  *)
(***************************************************************************)
VARIABLES
  grid,           \* the cells of the sheet
  header_mode,    \* "row" or "column"
  header_config,  \* the SheetConfig: header_row, merge_rows, excluded_rows
  pc,             \* the position of the run
  result,         \* what _load_and_clean_sheet returned
  records,        \* what _format_records returned
  detected,       \* what detect_header_and_merge_count returned
  answers,        \* what the operator answered to the prompts so far
  config_data,    \* the config document that was written
  config_file,    \* the config file on disk, as a run finds it
  workbook,       \* the sheets of the input file of a run, in their order
  run,            \* the position and the local variables of a run
  files           \* the record files that were written, by path

\* The variables of one sheet and of the building of its config.
sheetVars == <<grid, header_mode, header_config, pc, result, records,
               detected, answers, config_data>>

\* The variables of a run over the sheets of a config file.
runVars == <<config_file, workbook, run, files>>

vars == <<grid, header_mode, header_config, pc, result, records,
          detected, answers, config_data, config_file, workbook, run, files>>

NoConfigFile == [exists |-> FALSE, valid |-> FALSE, text |-> << >>]

NoRun == [entry |-> "none", separated_output |-> FALSE, pc |-> "none",
          outcome |-> "none", input_file |-> "", header_mode |-> "row",
          sheets_config |-> << >>, sheet_names |-> << >>, i |-> 0,
          total_records |-> 0, handled |-> << >>, processed_dfs |-> << >>,
          written |-> << >>, source |-> [extension |-> ".xlsx", exists |-> TRUE],
          unreadable |-> {}]


NoDetection == [called |-> FALSE, max_scan_rows |-> 0, header_num |-> 0,
                merge_rows_count |-> 0]

NoAnswers == [header_num |-> 0, merge_rows_count |-> 0, refused |-> 0,
              tokens |-> << >>, accepted |-> FALSE]

NoSheetConfig == [header_row |-> 0, merge_rows |-> 0, excluded_rows |-> << >>]

NoConfig == [written |-> FALSE, builder |-> "none", header_mode |-> "row",
             sheet |-> NoSheetConfig]

(***************************************************************************)
(* The sheets and configs of the extraction runs.                          *)
(***************************************************************************)
MaxHeaderRow == 3

StructureCells == {NaN, "A", "1"}

MaxTypedRows == 3

TypedCells == {NaN, "A", "1", "2.5"}

\* The reader's output: no trailing empty row, no trailing empty column.
ReaderGrids(cells, maxRows, cols) ==
  UNION {{g \in [1..r -> [1..cols -> cells]] :
            /\ ~RowIsEmpty(g[r])
            /\ \E i \in 1..r : g[i][cols] # NaN} : r \in 1..maxRows}

\* The sheet of the end-to-end example of the specification.
ExampleGrid ==
  << <<"Report 2024-01-01", NaN, NaN>>,
     <<"Region", "Sales", "Qty">>,
     <<"North", "100", "5">>,
     <<NaN, NaN, NaN>>,
     <<"South", "200", "7">> >>

\* A sheet whose cells are stored as reals: whole ones, a fraction, a gap.
CoercionGrid ==
  << <<"Qty", "Sales">>,
     <<"5.0", "2.5">>,
     <<"7.0", "100.0">>,
     <<NaN, "200.0">> >>

ExcludedChoices ==
  { << >>,
    <<IntEntry(4)>>,
    <<IntEntry(5)>>,
    <<IntEntry(3), RangeEntry(3, 9), BadEntry>>,
    <<RangeEntry(4, 3), StrEntry, IntEntry(1), RangeEntry(2, 3)>> }

Configs(maxHeader, choices) ==
  {[header_row |-> h, merge_rows |-> m, excluded_rows |-> e] :
     h \in 1..maxHeader, m \in 1..maxHeader, e \in choices}

ValidConfig(c) == 1 <= c.merge_rows /\ c.merge_rows <= c.header_row

Init ==
  /\ \/ /\ grid \in ReaderGrids(StructureCells, MaxRows, MaxCols) \cup {ExampleGrid}
        /\ header_config \in {c \in Configs(MaxHeaderRow, ExcludedChoices) : ValidConfig(c)}
     \/ /\ grid \in ReaderGrids(TypedCells, MaxTypedRows, MaxCols) \cup {CoercionGrid}
        /\ header_config \in {c \in Configs(MaxHeaderRow, {<< >>}) : ValidConfig(c)}
  /\ header_mode \in {"row", "column"}
  /\ pc = "start"
  /\ result = NoResult
  /\ records = << >>
  /\ detected = NoDetection
  /\ answers = NoAnswers
  /\ config_data = NoConfig
  /\ config_file = NoConfigFile
  /\ workbook = << >>
  /\ run = NoRun
  /\ files = {}

\* _load_and_clean_sheet(input_file, sheet_name, header_config, header_mode),
\* as load_dataframes_from_config calls it for a sheet of the config.
LoadAndClean ==
  /\ pc = "start"
  /\ result' = LoadAndCleanSheet(grid, header_config, header_mode)
  /\ pc' = "cleaned"
  /\ UNCHANGED <<grid, header_mode, header_config, records, detected, answers, config_data>>
  /\ UNCHANGED runVars

\* _format_records(df, metadata_string), as process_single_sheet calls it on
\* the frame of a row-mode load.
Format ==
  /\ pc = "cleaned"
  /\ header_mode = "row"
  /\ result.outcome = "ok"
  /\ records' = FormatRecords(result.df, result.metadata_string)
  /\ pc' = "formatted"
  /\ UNCHANGED <<grid, header_mode, header_config, result, detected, answers, config_data>>
  /\ UNCHANGED runVars

Next == LoadAndClean \/ Format

Spec == Init /\ [][Next]_vars

(***************************************************************************)
(* The claims about extraction, checked under Spec.                        *)
(***************************************************************************)
\* The rows excluded_rows denotes: its integers and its inclusive ranges.
DenotedRows(excluded_rows) ==
  UNION {IF excluded_rows[i].k = "int" THEN {excluded_rows[i].a}
         ELSE IF excluded_rows[i].k = "range" THEN excluded_rows[i].a .. excluded_rows[i].b
         ELSE {} : i \in 1..Len(excluded_rows)}

\* The sheet rows of the records, top to bottom.
Increasing(srcs) == \A i, k \in 1..Len(srcs) : i < k => srcs[i] < srcs[k]

ExampleConfig(excluded_rows) ==
  [header_row |-> 2, merge_rows |-> 1, excluded_rows |-> excluded_rows]

\* C1: in row mode, formatting after extraction emits one record per row
\* after header_row that is neither excluded nor empty across the kept
\* columns, in sheet order; a record carries ExtraInfo, equal to the metadata
\* string, exactly when that string is not empty; the example sheet with
\* header_row=2, merge_rows=1 and no exclusion gives the records North (100,
\* 5) and South (200, 7), both with ExtraInfo 'Report 2024-01-01'.
C1_OneRecordPerDataRow ==
  (pc = "formatted" /\ header_mode = "row") =>
    LET h    == header_config.header_row
        kept == Range(result.df.pos)
        rows == {r \in (h + 1)..Len(grid) :
                   /\ r \notin DenotedRows(header_config.excluded_rows)
                   /\ \E j \in kept : grid[r][j] # NaN}
    IN  /\ {records[i].src : i \in 1..Len(records)} = rows
        /\ Len(records) = Cardinality(rows)
        /\ Increasing([i \in 1..Len(records) |-> records[i].src])
        /\ \A i \in 1..Len(records) :
             /\ records[i].has_extra = ~IsEmptyString(result.metadata_string)
             /\ records[i].has_extra => records[i].ExtraInfo = result.metadata_string
             /\ ~records[i].has_extra => records[i].ExtraInfo = << >>
        /\ (grid = ExampleGrid /\ header_config = ExampleConfig(<< >>)) =>
             /\ Len(records) = 2
             /\ records[1].vals = (<<"Region">> :> "North" @@ <<"Sales">> :> "100" @@ <<"Qty">> :> "5")
             /\ records[2].vals = (<<"Region">> :> "South" @@ <<"Sales">> :> "200" @@ <<"Qty">> :> "7")
             /\ \A i \in 1..2 : records[i].has_extra
                                /\ records[i].ExtraInfo = <<<<"Report 2024-01-01">>>>

\* A run of C1: a row is excluded, an empty row is pruned, a row is kept and
\* the sheet has a metadata string.
C1_Witness ==
  /\ pc = "formatted" /\ header_mode = "row"
  /\ Len(records) >= 1
  /\ result.removed_rows >= 1
  /\ Len(result.df.data) < Len(result.excluded.data)
  /\ records[1].has_extra

\* C2: every row r that excluded_rows denotes is mapped to the index
\* r - (header_row + 1) of the data block as loaded; the rows whose index is
\* within the block are removed, the other rows stay in order, and the count
\* that is reported is the number of those indices.
C2_RowExclusion ==
  (pc # "start" /\ result.outcome # "failed") =>
    LET h   == header_config.header_row
        n   == Len(result.loaded.data)
        idx == {r - (h + 1) : r \in DenotedRows(header_config.excluded_rows)} \cap (0..(n - 1))
        stay == KeptPositions(n, {i \in 1..n : (i - 1) \notin idx}, 1)
    IN  /\ result.outcome = "ok"
        /\ result.excluded.src = [k \in 1..Len(stay) |-> result.loaded.src[stay[k]]]
        /\ idx # {} => result.removed_rows = Cardinality(idx)
        /\ idx = {} => result.removed_rows = -1

\* C3, as stated: on the example sheet with header_row=2 and merge_rows=1,
\* excluded_rows=[4] leaves exactly one record, the North row.
C3_ExcludeFourLeavesNorth ==
  (pc = "formatted" /\ header_mode = "row" /\ grid = ExampleGrid
     /\ header_config = ExampleConfig(<<IntEntry(4)>>)) =>
    /\ Len(records) = 1
    /\ records[1].vals[<<"Region">>] = "North"

\* C3, amended: on the example sheet with header_row=2 and merge_rows=1,
\* excluded_rows=[4] removes the empty row 4 and leaves the two records North
\* and South; it is excluded_rows=[5] that removes the South row and leaves
\* exactly one record, the North row.
C3_ExcludeFiveLeavesNorth ==
  (pc = "formatted" /\ header_mode = "row" /\ grid = ExampleGrid) =>
    /\ header_config = ExampleConfig(<<IntEntry(4)>>) =>
         /\ result.removed_rows = 1
         /\ Len(records) = 2
         /\ records[1].vals[<<"Region">>] = "North"
         /\ records[2].vals[<<"Region">>] = "South"
    /\ header_config = ExampleConfig(<<IntEntry(5)>>) =>
         /\ result.removed_rows = 1
         /\ Len(records) = 1
         /\ records[1].vals[<<"Region">>] = "North"

\* The run of C3: the example sheet extracted with excluded_rows=[4].
C3_Witness ==
  /\ pc = "formatted" /\ header_mode = "row" /\ grid = ExampleGrid
  /\ header_config = ExampleConfig(<<IntEntry(4)>>)
  /\ Len(records) = 2

\* The rows of the sheet as extraction sees them: the columns of the grid in
\* column mode.
SheetRows == IF header_mode = "column" THEN Transpose(grid) ELSE grid

\* C4: extraction splits the rows of the sheet into the metadata block
\* 1 .. header_row - merge_rows, the header span
\* header_row - merge_rows + 1 .. header_row and the data block of every row
\* after header_row; the blocks are disjoint, cover every row, and the
\* metadata block is empty exactly when merge_rows = header_row.
C4_ThreeBlocks ==
  (pc # "start" /\ result.outcome # "failed") =>
    LET h        == header_config.header_row
        m        == header_config.merge_rows
        N        == Len(SheetRows)
        metadata == 1..result.before_header_rows_count
        header   == result.header_rows
        data     == Range(result.loaded.src)
    IN  /\ metadata = 1..(h - m)
        /\ header = (h - m + 1)..h
        /\ data = (h + 1)..N
        /\ metadata \cap header = {} /\ metadata \cap data = {} /\ header \cap data = {}
        /\ metadata \cup header \cup data = 1..N
        /\ (metadata = {}) <=> (m = h)
        /\ Range(result.df_pre_header.src) \subseteq metadata
        /\ \A r \in metadata \ Range(result.df_pre_header.src) : RowIsEmpty(SheetRows[r])

\* A run of C4: a sheet with a metadata row, a two-row header and data rows.
C4_Witness ==
  /\ pc = "cleaned" /\ result.outcome = "ok"
  /\ result.before_header_rows_count >= 1
  /\ Cardinality(result.header_rows) >= 2
  /\ Len(result.loaded.data) >= 2
  /\ Len(result.df_pre_header.data) >= 1

\* C7: column mode on a sheet gives the column names, the data rows and the
\* metadata string that row mode gives on the transposed sheet.
C7_ColumnModeIsRowModeOnTranspose ==
  (pc = "cleaned" /\ header_mode = "column") =>
    LET row == LoadAndCleanSheet(Transpose(grid), header_config, "row")
    IN  /\ result.outcome = row.outcome
        /\ result.df.columns = row.df.columns
        /\ result.df.data = row.df.data
        /\ result.metadata_string = row.metadata_string

\* The name the header span gives a column position: its non-empty cells,
\* trimmed, top to bottom.
MergedName(j) ==
  LET h == header_config.header_row
      m == header_config.merge_rows
      cells == [l \in 1..m |-> Strip(grid[h - m + l][j])]
  IN  SelectSeq(cells, LAMBDA c : c # "")

\* C9: in row mode, the extracted sheet has as many columns as there are
\* header positions with a non-empty merged name, and none of its columns has
\* an empty name, for merge_rows = 1 and merge_rows > 1 alike.
C9_ColumnsAreTheNamedPositions ==
  (pc # "start" /\ header_mode = "row" /\ result.outcome = "ok") =>
    /\ Len(result.df.columns) =
         Cardinality({j \in 1..NCols(grid) : MergedName(j) # << >>})
    /\ \A j \in 1..Len(result.df.columns) : result.df.columns[j] # << >>

\* The value at a cell of the extracted sheet, as the load step read it.
LoadedValue(i, j) ==
  LET r == CHOOSE k \in 1..Len(result.loaded.src) : result.loaded.src[k] = result.df.src[i]
      c == CHOOSE k \in 1..Len(result.loaded.pos) : result.loaded.pos[k] = result.df.pos[j]
  IN  result.loaded.data[r][c]

\* The values the load step read for a column of the extracted sheet.
LoadedPresent(j) ==
  LET c == CHOOSE k \in 1..Len(result.loaded.pos) : result.loaded.pos[k] = result.df.pos[j]
  IN  {result.loaded.data[r][c] : r \in 1..Len(result.loaded.data)} \ {NaN}

\* C10: a column whose present values are all whole-number reals holds the
\* same values as integers after extraction; every other column, one with a
\* fractional value included, holds its values unchanged.
C10_WholeRealsBecomeIntegers ==
  (pc # "start" /\ result.outcome = "ok") =>
    \A j \in 1..Len(result.df.columns) :
      LET whole == LoadedPresent(j) # {} /\ LoadedPresent(j) \subseteq WholeFloatCells
      IN  \A i \in 1..Len(result.df.data) :
            result.df.data[i][j] =
              IF whole /\ LoadedValue(i, j) # NaN THEN IntOf(LoadedValue(i, j))
              ELSE LoadedValue(i, j)

\* The name the header span gives a column position of the sheet as
\* extraction sees it: the non-empty cells of the span, trimmed, top to
\* bottom.
HeaderSpanName(j) ==
  LET h == header_config.header_row
      m == header_config.merge_rows
      cells == [l \in 1..m |-> Strip(ConvertCell(SheetRows[h - m + l][j]))]
  IN  SelectSeq(cells, LAMBDA c : c # "")

\* C26: the name of every column of the extracted sheet is the ' - ' join,
\* top to bottom, of the trimmed non-empty cells its position has in the
\* header span; with merge_rows = 1 it is the trimmed text of the one header
\* cell.
C26_HeaderMerge ==
  (pc # "start" /\ result.outcome = "ok") =>
    \A k \in 1..Len(result.df.columns) :
      /\ result.df.columns[k] = HeaderSpanName(result.df.pos[k])
      /\ header_config.merge_rows = 1 =>
           result.df.columns[k] =
             <<Strip(ConvertCell(SheetRows[header_config.header_row][result.df.pos[k]]))>>

\* The columns of the sheet that have no cell in rows 1..header_row.
EmptyBlockColumns ==
  {j \in 1..NCols(SheetRows) :
     \A i \in 1..header_config.header_row : SheetRows[i][j] = NaN}

\* C27: a column that is empty over rows 1..header_row is in neither the
\* metadata block nor the main data, whatever merge_rows is; a column with a
\* cell in the metadata rows stays in the metadata block, and a column with
\* a cell in the header span stays in the main data, also when it has no
\* cell below the header.
C27_EmptyColumnPruning ==
  (pc # "start" /\ result.outcome = "ok") =>
    /\ \A j \in EmptyBlockColumns :
         /\ j \notin Range(result.df.pos)
         /\ j \notin Range(result.df_pre_header.pos)
    /\ \A j \in (1..NCols(SheetRows)) \ EmptyBlockColumns :
         /\ ~FrameIsEmpty(result.df_pre_header) => j \in Range(result.df_pre_header.pos)
         /\ HeaderSpanName(j) # << >> => j \in Range(result.df.pos)

\* The excluded_rows config read from its last entry to its first.
ReversedEntries(excluded_rows) ==
  [i \in 1..Len(excluded_rows) |-> excluded_rows[Len(excluded_rows) + 1 - i]]

DetCols == 5

MaxDetRows == 3

MaxTemporal == 1

\* A scanned row with a text cells, n numbers and t dates, then empty cells.
DetRow(a, n, t) ==
  [j \in 1..DetCols |-> IF j <= a THEN "A"
                        ELSE IF j <= a + n THEN "1"
                        ELSE IF j <= a + n + t THEN "2024-01-01"
                        ELSE NaN]

DetRows == {DetRow(a, n, t) : a \in 0..DetCols, n \in 0..DetCols, t \in 0..MaxTemporal}

\* The sheets the builders look at: up to MaxDetRows rows, the last one not
\* empty, the sheet without any cell, and sheets of a title, a second row
\* that may be blank, a header and a data row.
DetectionGrids ==
  UNION {{g \in [1..r -> DetRows] : ~RowIsEmpty(g[r])} : r \in 1..MaxDetRows}
  \cup {<<DetRow(0, 0, 0)>>}
  \cup {<<DetRow(1, 0, 0), second, DetRow(3, 0, 0), DetRow(1, 2, 0)>> :
          second \in {DetRow(0, 0, 0), DetRow(2, 0, 0)}}

ScanChoices == {1, 2, DefaultMaxScanRows}

MaxAnswer == 3

MaxRefused == 2

\* Answers to the excluded-rows prompt, split at the commas.
TokenAnswers ==
  { << >>,
    <<DigitToken(1)>>,
    <<DigitToken(3)>>,
    <<DigitToken(5), DigitToken(4), DigitToken(5)>>,
    <<OtherToken>>,
    <<OtherToken, DigitToken(2)>>,
    <<DigitToken(4), OtherToken>>,
    <<RangeToken(4, 6)>>,
    <<DigitToken(4), RangeToken(6, 4)>> }

InitConfig ==
  /\ \/ /\ grid \in DetectionGrids
        /\ header_mode \in {"row", "column"}
        /\ pc = "config"
     \/ /\ grid = ExampleGrid
        /\ header_mode = "row"
        /\ pc = "ask"
  /\ header_config = NoSheetConfig
  /\ result = NoResult
  /\ records = << >>
  /\ detected = NoDetection
  /\ answers = NoAnswers
  /\ config_data = NoConfig
  /\ config_file = NoConfigFile
  /\ workbook = << >>
  /\ run = NoRun
  /\ files = {}

\* detect_header_and_merge_count(input_file, sheet_name, max_scan_rows)
Detect ==
  /\ pc = "config"
  /\ \E n \in ScanChoices :
       LET d == DetectHeaderAndMergeCount(grid, n)
       IN  detected' = [called |-> TRUE, max_scan_rows |-> n,
                        header_num |-> d[1], merge_rows_count |-> d[2]]
  /\ pc' = "detected"
  /\ UNCHANGED <<grid, header_mode, header_config, result, records, answers, config_data>>
  /\ UNCHANGED runVars

\* generate_config(input_file, output_config_file, header_mode) of
\* workspace/data_preprocessing, for the one sheet of the workbook.
GenerateConfig ==
  /\ pc = "config"
  /\ config_data' = [written |-> TRUE, builder |-> "auto", header_mode |-> header_mode,
                     sheet |-> AutoSheetConfig(grid, header_mode)]
  /\ pc' = "written"
  /\ UNCHANGED <<grid, header_mode, header_config, result, records, detected, answers>>
  /\ UNCHANGED runVars

\* The two get_integer_input prompts of the interactive generate_config and
\* the check of the second answer against the first.  get_integer_input
\* returns only once the answer is an integer >= 1.
AskHeaderAndMerge ==
  /\ pc = "ask"
  /\ \E header_num \in 1..MaxAnswer, merge_rows_count \in 1..MaxAnswer :
       answers' = [header_num |-> header_num,
                   merge_rows_count |-> NormalizeMerge(header_num, merge_rows_count),
                   refused |-> 0, tokens |-> << >>, accepted |-> FALSE]
  /\ pc' = "ask_excluded"
  /\ UNCHANGED <<grid, header_mode, header_config, result, records, detected, config_data>>
  /\ UNCHANGED runVars

\* One answer to the prompt of get_excluded_rows_input: a refused answer is
\* asked for again, an accepted one completes the sheet and the document is
\* written.
AnswerExcludedRows ==
  /\ pc = "ask_excluded"
  /\ \E tokens \in TokenAnswers :
       IF AnswerRefused(tokens, answers.header_num)
       THEN /\ answers.refused < MaxRefused
            /\ answers' = [answers EXCEPT !.refused = @ + 1, !.tokens = tokens]
            /\ UNCHANGED <<pc, config_data>>
       ELSE /\ config_data' = [written |-> TRUE, builder |-> "interactive",
                               header_mode |-> "row",
                               sheet |-> [header_row |-> answers.header_num,
                                          merge_rows |-> answers.merge_rows_count,
                                          excluded_rows |-> AnswerRows(tokens)]]
            /\ pc' = "written"
            /\ answers' = [answers EXCEPT !.tokens = tokens, !.accepted = TRUE]
  /\ UNCHANGED <<grid, header_mode, header_config, result, records, detected>>
  /\ UNCHANGED runVars

NextConfig == Detect \/ GenerateConfig \/ AskHeaderAndMerge \/ AnswerExcludedRows

SpecConfig == InitConfig /\ [][NextConfig]_vars

(***************************************************************************)
(* The claims about the config builders, checked under SpecConfig.         *)
(***************************************************************************)
\* C5: every sheet config that is persisted, and every pair
\* detect_header_and_merge_count returns, has header_row >= 1 and
\* 1 <= merge_rows <= header_row.
C5_PersistedConfigIsValid ==
  /\ config_data.written =>
       /\ config_data.sheet.header_row >= 1
       /\ 1 <= config_data.sheet.merge_rows
       /\ config_data.sheet.merge_rows <= config_data.sheet.header_row
  /\ detected.called =>
       /\ detected.header_num >= 1
       /\ 1 <= detected.merge_rows_count
       /\ detected.merge_rows_count <= detected.header_num

\* The rows of the sheet among the first max_scan_rows that have a non-empty
\* cell and more numeric-or-temporal cells than 0.4 of their non-empty cells
\* (2/5 of them), by one-based row number.
ScannedDataRows ==
  {i \in 1..Min2(detected.max_scan_rows, Len(grid)) :
     LET total   == Cardinality({j \in 1..Len(grid[i]) : grid[i][j] # NaN})
         numeric == Cardinality({j \in 1..Len(grid[i]) :
                       grid[i][j] # NaN /\ (IsNumber(grid[i][j]) \/ IsTemporal(grid[i][j]))})
     IN  total > 0 /\ 5 * numeric > 2 * total}

\* C6: detection looks at no more than the first max_scan_rows rows; the
\* first data row is the first of them with a non-empty cell whose
\* numeric-or-temporal cells are strictly more than 0.4 of its non-empty
\* cells, so that 2 of 5 is not enough; when it is not the top row, the
\* header row returned is the row directly above it.
C6_FirstDataRow ==
  detected.called =>
    /\ (ScannedDataRows # {} /\ SetMin(ScannedDataRows) > 1) =>
          detected.header_num = SetMin(ScannedDataRows) - 1
    /\ detected.header_num <= IF detected.max_scan_rows < Len(grid)
                              THEN detected.max_scan_rows ELSE Len(grid)

\* A run of C6: the top row has 2 numeric cells among 5 non-empty ones, the
\* row below it is the first data row, and a third row is out of the scan.
C6_Witness ==
  /\ detected.called
  /\ detected.max_scan_rows = 2 /\ Len(grid) = 3
  /\ grid[1] = DetRow(3, 2, 0)
  /\ ScannedDataRows = {2}
  /\ detected.header_num = 1

\* C8, as stated: in column mode the persisted pair is what detection returns
\* on the transposed sheet.
C8_ColumnConfigIsDetectionOnTranspose ==
  (config_data.written /\ config_data.builder = "auto" /\ config_data.header_mode = "column") =>
    <<config_data.sheet.header_row, config_data.sheet.merge_rows>> =
      DetectHeaderAndMergeCount(Transpose(grid), DefaultMaxScanRows)

\* C8, amended: in column mode the builder runs no detection and persists
\* header_row = 1 and merge_rows = 1 for the sheet, whatever its cells.
C8_ColumnConfigIsFirstRow ==
  (config_data.written /\ config_data.builder = "auto" /\ config_data.header_mode = "column") =>
    /\ config_data.sheet.header_row = 1
    /\ config_data.sheet.merge_rows = 1

\* A run of C8: a column-mode config of a sheet on whose transpose detection
\* returns another pair.
C8_Witness ==
  /\ config_data.written /\ config_data.builder = "auto"
  /\ config_data.header_mode = "column"
  /\ DetectHeaderAndMergeCount(Transpose(grid), DefaultMaxScanRows) # <<1, 1>>

\* An excluded_rows entry that names a row at or above the header row.
ViolatesInvariant(item, header_row) ==
  \/ item.k = "int" /\ item.a <= header_row
  \/ item.k = "range" /\ (item.a <= header_row \/ item.b <= header_row)

\* C15: the entries of excluded_rows that name a row at or above header_row
\* are skipped: the extracted columns, rows and metadata string are those of
\* the same sheet under the config with these entries deleted.
C15_ViolatingEntriesAreSkipped ==
  pc = "cleaned" =>
    LET kept  == SelectSeq(header_config.excluded_rows,
                           LAMBDA item : ~ViolatesInvariant(item, header_config.header_row))
        clean == LoadAndCleanSheet(grid, [header_config EXCEPT !.excluded_rows = kept],
                                   header_mode)
    IN  /\ result.outcome = clean.outcome
        /\ result.df.columns = clean.df.columns
        /\ result.df.src = clean.df.src
        /\ result.df.data = clean.df.data
        /\ result.metadata_string = clean.metadata_string

\* C16: the rows the interactive builder stores for a sheet all lie below
\* the sheet's header_row, and no row is stored twice.
C16_StoredRowsBelowHeaderNoDuplicates ==
  (config_data.written /\ config_data.builder = "interactive") =>
    LET stored == config_data.sheet.excluded_rows
    IN  /\ \A i \in 1..Len(stored) :
             stored[i].k = "int" /\ stored[i].a > config_data.sheet.header_row
        /\ \A i, k \in 1..Len(stored) : i # k => stored[i] # stored[k]

\* An answer that repeats a row was accepted and its rows were stored.
C16_Witness ==
  /\ config_data.written /\ config_data.builder = "interactive"
  /\ answers.accepted
  /\ \E i, k \in 1..Len(answers.tokens) : i # k /\ answers.tokens[i] = answers.tokens[k]
  /\ Len(config_data.sheet.excluded_rows) = 2

\* A token that is neither an integer nor a range 'a-b' with a <= b.
TokenFailsToParse(t) ==
  ~t.digits /\ (t = OtherToken \/ t.range[1] > t.range[2])

\* The values a token names, when it parses.
TokenValues(t) ==
  IF t.digits THEN {t.n} ELSE IF t = OtherToken THEN {} ELSE t.range[1]..t.range[2]

\* C17: an answer with a token that does not parse, or with a value that is
\* not below header_row, is refused whole and nothing of it is stored; an
\* answer that is one well-formed range below header_row is accepted.
C17_AnswerRefusedWhole ==
  (answers.accepted \/ answers.refused > 0) =>
    LET tokens == answers.tokens
        broken == \E i \in 1..Len(tokens) :
                    \/ TokenFailsToParse(tokens[i])
                    \/ \E r \in TokenValues(tokens[i]) : r <= answers.header_num
    IN  /\ broken => ~answers.accepted
        /\ (Len(tokens) = 1 /\ ~tokens[1].digits /\ ~broken) => answers.accepted

\* The number of non-empty rows of the sheet directly above the one-based
\* row i, counted upward from row i - 1 up to the first empty row.
NonEmptyRowsDirectlyAbove(i) ==
  CHOOSE k \in 0..(i - 1) :
    /\ \A q \in (i - k)..(i - 1) : ~RowIsEmpty(grid[q])
    /\ k = i - 1 \/ RowIsEmpty(grid[i - k - 1])

C23_TopDataRowGivesFirstRow ==
  (detected.called /\ 1 \in ScannedDataRows) =>
    /\ detected.header_num = 1
    /\ detected.merge_rows_count = 1

\* A run of C23: the top row and the third row are data rows, the row
\* between them is text.
C23_Witness ==
  /\ detected.called
  /\ Len(grid) = 3
  /\ ScannedDataRows = {1, 3}
  /\ ~RowIsEmpty(grid[2])
  /\ detected.header_num = 1 /\ detected.merge_rows_count = 1

\* The one-based rows among the first max_scan_rows of the sheet.
ScannedRows == 1..Min2(detected.max_scan_rows, Len(grid))

\* C24: when no scanned row is a data row, header_num is the first of the
\* scanned rows with the largest number of non-empty cells, and
\* merge_rows_count is 1 plus the number of non-empty rows directly above it.
C24_MaxNonNullFallback ==
  (detected.called /\ ScannedDataRows = {}
     /\ \E i \in ScannedRows : ~RowIsEmpty(grid[i])) =>
    /\ detected.header_num \in ScannedRows
    /\ \A i \in ScannedRows :
         /\ CountNonNull(grid[i]) <= CountNonNull(grid[detected.header_num])
         /\ i < detected.header_num =>
              CountNonNull(grid[i]) < CountNonNull(grid[detected.header_num])
    /\ detected.merge_rows_count = 1 + NonEmptyRowsDirectlyAbove(detected.header_num)

\* A run of C24: three rows of text, the second and the third with the same
\* largest number of cells.
C24_Witness ==
  /\ detected.called
  /\ Len(grid) = 3 /\ detected.max_scan_rows = DefaultMaxScanRows
  /\ ScannedDataRows = {}
  /\ CountNonNull(grid[1]) = 1
  /\ CountNonNull(grid[2]) = 2 /\ CountNonNull(grid[3]) = 2
  /\ detected.header_num = 2
  /\ detected.merge_rows_count = 2

(***************************************************************************)
(* Extraction of sheets whose metadata block holds texts with outer        *)
(* whitespace, whitespace alone, and newlines.                             *)
(***************************************************************************)
MetaRows == 2

MetaCells == {NaN, "A", "  ", " A ", "A\nB"}

\* Two rows of metadata cells above a header row and a data row.
MetaGrids ==
  {m \o << <<"Region", "Sales">>, <<"North", "100">> >> :
     m \in [1..MetaRows -> [1..MaxCols -> MetaCells]]}

\* The metadata rows of the example of the specification: a text, an
\* entirely empty row, a text.
MetaExampleGrid ==
  << <<"Report generated 2024-01-01", NaN>>,
     <<NaN, NaN>>,
     <<"Region: North", NaN>>,
     <<"Region", "Sales">>,
     <<"North", "100">> >>

MetaExampleConfig == [header_row |-> 4, merge_rows |-> 1, excluded_rows |-> << >>]

InitMeta ==
  /\ \/ /\ grid \in MetaGrids
        /\ header_config \in {[header_row |-> h, merge_rows |-> m, excluded_rows |-> << >>] :
                                h \in 2..(MetaRows + 1), m \in 1..2}
     \/ /\ grid = MetaExampleGrid
        /\ header_config = MetaExampleConfig
  /\ header_mode \in {"row", "column"}
  /\ pc = "start"
  /\ result = NoResult
  /\ records = << >>
  /\ detected = NoDetection
  /\ answers = NoAnswers
  /\ config_data = NoConfig
  /\ config_file = NoConfigFile
  /\ workbook = << >>
  /\ run = NoRun
  /\ files = {}

SpecMeta == InitMeta /\ [][Next]_vars

\* The texts of a row of the sheet, trimmed, without the ones that are empty
\* once trimmed.
TrimmedTexts(row) ==
  SelectSeq([j \in 1..Len(row) |-> Strip(ReplaceNewlines(row[j]))], LAMBDA t : t # "")

\* The rows of the metadata block that have a text to show, top to bottom.
ShownMetadataRows ==
  SelectSeq([i \in 1..result.before_header_rows_count |-> SheetRows[i]],
            LAMBDA row : TrimmedTexts(row) # << >>)

\* C11: metadata_string has one segment per row of the metadata block that
\* has a text to show, in top-to-bottom order; a segment holds the texts of
\* its row, in order; no segment between two ' | ' is empty; and the
\* metadata rows of the example give
\* 'Report generated 2024-01-01 | Region: North'.
C11_MetadataString ==
  (pc = "cleaned" /\ result.outcome = "ok") =>
    /\ \A k \in 1..Len(result.metadata_string) :
         TrimmedTexts(result.metadata_string[k]) # << >>
    /\ Len(result.metadata_string) = Len(ShownMetadataRows)
    /\ \A k \in 1..Len(ShownMetadataRows) :
         TrimmedTexts(result.metadata_string[k]) = TrimmedTexts(ShownMetadataRows[k])
    /\ (grid = MetaExampleGrid /\ header_config = MetaExampleConfig /\ header_mode = "row") =>
         result.metadata_string = << <<"Report generated 2024-01-01">>, <<"Region: North">> >>

(***************************************************************************)
(* The config document and its JSON text.  A dict is the sequence of its   *)
(* items [k, v] in insertion order; a JSON number is the text of its       *)
(* digits.                                                                 *)
(***************************************************************************)
MaxJsonInt == 9

DictHas(d, key) == \E i \in 1..Len(d) : d[i].k = key

\* d.get(key, default)
DictGet(d, key, default) ==
  IF DictHas(d, key) THEN d[CHOOSE i \in 1..Len(d) : d[i].k = key].v ELSE default

\* d[key] = value
DictSet(d, key, value) ==
  IF DictHas(d, key)
  THEN AsSeq([i \in 1..Len(d) |-> IF d[i].k = key THEN [k |-> key, v |-> value] ELSE d[i]])
  ELSE Append(d, [k |-> key, v |-> value])

\* int(text) of a JSON number, read as 0 whatever its digits
ParseIntAsZero(text) == 0

\* int(text) of a JSON number
ParseInt(text) == CHOOSE n \in 0..MaxJsonInt : ToString(n) = text

\* json.dump(config_data, f, ensure_ascii=False, indent=4): the keys in
\* their order; input_file and header_mode as strings; under sheets, for
\* each name, header_row and merge_rows as numbers and excluded_rows as an
\* array of numbers and strings.
JsonDump(doc) ==
  AsSeq([i \in 1..Len(doc) |->
     [k |-> doc[i].k,
      v |-> IF doc[i].k # "sheets" THEN [t |-> "string", text |-> doc[i].v]
            ELSE AsSeq([q \in 1..Len(doc[i].v) |->
              [k |-> doc[i].v[q].k,
               v |-> AsSeq([e \in 1..Len(doc[i].v[q].v) |->
                 [k |-> doc[i].v[q].v[e].k,
                  v |-> IF doc[i].v[q].v[e].k # "excluded_rows"
                        THEN [t |-> "number", text |-> ToString(doc[i].v[q].v[e].v)]
                        ELSE AsSeq([x \in 1..Len(doc[i].v[q].v[e].v) |->
                          IF doc[i].v[q].v[e].v[x].k = "int"
                          THEN [t |-> "number", text |-> ToString(doc[i].v[q].v[e].v[x].a)]
                          ELSE [t |-> "string", text |-> doc[i].v[q].v[e].v[x]]])]])]])]])

\* json.load(f): the dict of the document, its keys in the order of the
\* text, its numbers as integers.
JsonLoad(text) ==
  AsSeq([i \in 1..Len(text) |->
     [k |-> text[i].k,
      v |-> IF text[i].k # "sheets" THEN text[i].v.text
            ELSE AsSeq([q \in 1..Len(text[i].v) |->
              [k |-> text[i].v[q].k,
               v |-> AsSeq([e \in 1..Len(text[i].v[q].v) |->
                 [k |-> text[i].v[q].v[e].k,
                  v |-> IF text[i].v[q].v[e].k # "excluded_rows"
                        THEN ParseInt(text[i].v[q].v[e].v.text)
                        ELSE AsSeq([x \in 1..Len(text[i].v[q].v[e].v) |->
                          IF text[i].v[q].v[e].v[x].t = "number"
                          THEN IntEntry(ParseInt(text[i].v[q].v[e].v[x].text))
                          ELSE text[i].v[q].v[e].v[x].text])]])]])]])

\* The entry of a sheet as the config builders write it.
SheetEntry(header_num, merge_rows_count, excluded_rows) ==
  << [k |-> "header_row", v |-> header_num],
     [k |-> "merge_rows", v |-> merge_rows_count],
     [k |-> "excluded_rows", v |-> excluded_rows] >>

\* config_data of generate_config (workspace/data_preprocessing) once the
\* loop over the sheets of the workbook, whose names differ, has ended.
\* unreadable: the positions of the sheets whose read fails in detection.
GeneratedConfig(input_file, mode, sheets, unreadable) ==
  << [k |-> "input_file", v |-> input_file],
     [k |-> "header_mode", v |-> mode],
     [k |-> "sheets",
      v |-> AsSeq([i \in 1..Len(sheets) |->
              [k |-> sheets[i].name,
               v |-> IF mode = "row" /\ i \in unreadable
                     THEN SheetEntry(
                            DetectOrDefault(sheets[i].grid, DefaultMaxScanRows, TRUE)[1],
                            DetectOrDefault(sheets[i].grid, DefaultMaxScanRows, TRUE)[2],
                            << >>)
                     ELSE SheetEntry(AutoSheetConfig(sheets[i].grid, mode).header_row,
                                     AutoSheetConfig(sheets[i].grid, mode).merge_rows,
                                     AutoSheetConfig(sheets[i].grid, mode).excluded_rows)]])] >>

(***************************************************************************)
(* process_single_sheet and its callers.  A sheet name is the sequence of  *)
(* its characters.                                                         *)
(***************************************************************************)
\* sanitize_filename: strip(), ' ' to '_', and only the word characters
\* (here A, B, 1 and _) and '-' kept.
SanitizeFilename(name) ==
  LET inner    == {i \in 1..Len(name) : name[i] # " "}
      stripped == IF inner = {} THEN << >>
                  ELSE SubSeq(name, SetMin(inner), CHOOSE i \in inner : \A q \in inner : q <= i)
      replaced == AsSeq([i \in 1..Len(stripped) |->
                           IF stripped[i] = " " THEN "_" ELSE stripped[i]])
  IN  SelectSeq(replaced, LAMBDA ch : ch \in {"A", "B", "1", "_", "-"})

\* The path of a record file: f"{dir}/{base}_{safe_sheet_name}.jsonl" when
\* row is -1, f"{base}_{sanitize_filename(sheet_name)}_{row}.jsonl" otherwise.
RecordPath(sheet_name, row) == [sheet |-> SanitizeFilename(sheet_name), row |-> row]

\* open(path, 'w') followed by the writes: the file holds these lines now.
WriteFile(fs, path, lines) ==
  {f \in fs : f.path # path} \cup {[path |-> path, lines |-> lines]}

\* json.dumps(record, ensure_ascii=False) with the newline that follows it:
\* null for None, the digits of a number, a text between quotes.
JsonDumps(record) ==
  [record EXCEPT !.vals = [name \in DOMAIN @ |->
     IF @[name] = None THEN "null"
     ELSE IF IsNumber(@[name]) THEN @[name]
     ELSE "\"" \o @[name] \o "\""]]

\* _format_records of dockerfile/base/workspace/pre_process: '' for a
\* missing value, the keys Metadata and SourceFile.
DockerFormatRecords(df, metadata_string, source_file_id) ==
  LET formatted == FormatRecords(df, metadata_string)
  IN  AsSeq([i \in 1..Len(formatted) |->
         [src        |-> formatted[i].src,
          vals       |-> [name \in DOMAIN formatted[i].vals |->
                            IF formatted[i].vals[name] = None THEN ""
                            ELSE formatted[i].vals[name]],
          has_extra  |-> formatted[i].has_extra,
          Metadata   |-> formatted[i].ExtraInfo,
          SourceFile |-> source_file_id]])

\* header_config['header_row'] and header_config['merge_rows'] are there.
EntryComplete(entry) == DictHas(entry, "header_row") /\ DictHas(entry, "merge_rows")

\* _load_and_clean_sheet on the entry of a sheet: a KeyError leaves the
\* function when the entry lacks header_row or merge_rows.  The function of
\* dockerfile/base/workspace/pre_process is the row-mode path of this one on
\* entries whose excluded_rows are integers.
LoadAndCleanEntry(grid0, entry, mode) ==
  IF ~EntryComplete(entry) THEN [NoResult EXCEPT !.outcome = "raised"]
  ELSE LoadAndCleanSheet(grid0,
         [header_row    |-> DictGet(entry, "header_row", 0),
          merge_rows    |-> DictGet(entry, "merge_rows", 0),
          excluded_rows |-> DictGet(entry, "excluded_rows", << >>)],
         mode)

\* What a call for one sheet did: whether an exception left it, the count
\* it returned, the records it formatted, and the files after it.
SheetDone(sheet_name, raised, records_count, sheet_records, written, fs) ==
  [sheet_name |-> sheet_name, raised |-> raised, records_count |-> records_count,
   records |-> sheet_records, written |-> written, files |-> fs]

\* process_single_sheet returning, when a write fails, the count of the
\* records it had written by then.
ProcessSingleSheetCountingWritten(fs, sheet_name, sheet_records, outcome, fail) ==
  IF outcome = "raised" THEN SheetDone(sheet_name, TRUE, 0, << >>, 0, fs)
  ELSE IF outcome = "failed" \/ Len(sheet_records) = 0
  THEN SheetDone(sheet_name, FALSE, 0, << >>, 0, fs)
  ELSE LET n == IF fail = 0 THEN Len(sheet_records)
                ELSE IF fail = Len(sheet_records) + 1 THEN 0 ELSE fail - 1
       IN  SheetDone(sheet_name, FALSE, n, sheet_records, n,
                     IF fail = Len(sheet_records) + 1 THEN fs
                     ELSE WriteFile(fs, RecordPath(sheet_name, -1),
                            AsSeq([i \in 1..n |-> JsonDumps(sheet_records[i])])))

\* process_single_sheet.  fail = 0: every write succeeds; fail = k in
\* 1..len(records): the k-th write raises; fail = len(records) + 1: open
\* raises.
ProcessSingleSheet(fs, sheet_name, sheet_records, outcome, fail) ==
  LET path  == RecordPath(sheet_name, -1)
      lines == AsSeq([i \in 1..Len(sheet_records) |-> JsonDumps(sheet_records[i])])
  IN  IF outcome = "raised" THEN SheetDone(sheet_name, TRUE, 0, << >>, 0, fs)
      ELSE IF outcome = "failed" \/ Len(sheet_records) = 0
      THEN SheetDone(sheet_name, FALSE, 0, << >>, 0, fs)
      ELSE IF fail = 0
      THEN SheetDone(sheet_name, FALSE, Len(sheet_records), sheet_records,
                     Len(lines), WriteFile(fs, path, lines))
      ELSE IF fail = Len(sheet_records) + 1
      THEN SheetDone(sheet_name, FALSE, 0, sheet_records, 0, fs)
      ELSE SheetDone(sheet_name, FALSE, 0, sheet_records, fail - 1,
                     WriteFile(fs, path, SubSeq(lines, 1, fail - 1)))

\* process_single_sheet_with_separated_output.  failing: the indices of the
\* records whose file could not be written.
ProcessSingleSheetWithSeparatedOutput(fs, sheet_name, sheet_records, outcome, failing) ==
  IF outcome = "raised" THEN SheetDone(sheet_name, TRUE, 0, << >>, 0, fs)
  ELSE IF outcome = "failed" \/ Len(sheet_records) = 0
  THEN SheetDone(sheet_name, FALSE, 0, << >>, 0, fs)
  ELSE LET rows == (0..(Len(sheet_records) - 1)) \ failing
       IN  SheetDone(sheet_name, FALSE, Len(sheet_records), sheet_records,
                     Cardinality(rows),
                     {f \in fs : \A i \in rows : f.path # RecordPath(sheet_name, i)}
                     \cup {[path |-> RecordPath(sheet_name, i),
                            lines |-> <<JsonDumps(sheet_records[i + 1])>>] : i \in rows})

(***************************************************************************)
(* Runs: generate_config, then process_data_from_config,                   *)
(* load_dataframes_from_config (workspace/data_preprocessing) or main      *)
(* (dockerfile/base/workspace/pre_process) over the sheets of the config.  *)
(***************************************************************************)
MaxSheets == 2

MaxRunRecords == 2

SheetNames == { <<"A", "-", "B">>, <<" ", "A", " ", "1", " ">>, <<"A", ".", "_", "1">> }

SmallGrid == << <<"Name", "Qty">>, <<"North", "5">>, <<"South", "7">> >>

HeaderOnlyGrid == << <<"Name", "Qty">> >>

\* The sheets of the input file: distinct names, in the order of the file.
RunWorkbooks ==
  {w \in UNION {[1..n -> [name : SheetNames, grid : {ExampleGrid, SmallGrid, HeaderOnlyGrid}]] : n \in 1..MaxSheets} :
     \A i, k \in 1..Len(w) : i # k => w[i].name # w[k].name}

\* The entries a config written by hand may hold for a sheet: complete
\* ones, one without header_row, one without merge_rows.
HandEntries ==
  { SheetEntry(1, 1, << >>),
    SheetEntry(2, 1, << >>),
    SheetEntry(1, 1, <<IntEntry(2)>>),
    << [k |-> "merge_rows", v |-> 1], [k |-> "excluded_rows", v |-> << >>] >>,
    << [k |-> "header_row", v |-> 1] >> }

\* The config files a run may find: none, one that is not JSON, a document
\* without input_file, one without sheets, and documents that list the
\* sheets of the workbook.
HandConfigFiles(sheets) ==
  { NoConfigFile,
    [exists |-> TRUE, valid |-> FALSE, text |-> << >>],
    [exists |-> TRUE, valid |-> TRUE,
     text |-> JsonDump(<< [k |-> "sheets",
                           v |-> [i \in 1..Len(sheets) |->
                                    [k |-> sheets[i].name, v |-> SheetEntry(1, 1, << >>)]]] >>)],
    [exists |-> TRUE, valid |-> TRUE,
     text |-> JsonDump(<< [k |-> "input_file", v |-> "book.xlsx"] >>)] }
  \cup
  { [exists |-> TRUE, valid |-> TRUE,
     text |-> JsonDump(head \o
                << [k |-> "sheets",
                    v |-> [i \in 1..Len(sheets) |-> [k |-> sheets[i].name, v |-> entries[i]]]] >>)] :
      head \in { << [k |-> "input_file", v |-> "book.xlsx"] >>,
                 << [k |-> "input_file", v |-> "book.xlsx"],
                    [k |-> "header_mode", v |-> "column"] >> },
      entries \in [1..Len(sheets) -> HandEntries] }

RunEntries ==
  { [entry |-> "process_data_from_config", separated_output |-> FALSE],
    [entry |-> "load_dataframes_from_config", separated_output |-> FALSE],
    [entry |-> "main", separated_output |-> FALSE],
    [entry |-> "main", separated_output |-> TRUE] }

InitRun ==
  /\ workbook \in RunWorkbooks
  /\ \E e \in RunEntries :
       \/ /\ config_file = NoConfigFile
          /\ header_mode \in {"row", "column"}
          /\ \E source \in [extension : {".xlsx", ".txt"}, exists : BOOLEAN] :
               run = [NoRun EXCEPT !.entry = e.entry,
                                   !.separated_output = e.separated_output,
                                   !.pc = "generate", !.source = source]
       \/ /\ config_file \in HandConfigFiles(workbook)
          /\ header_mode = "row"
          /\ run = [NoRun EXCEPT !.entry = e.entry, !.separated_output = e.separated_output,
                                 !.pc = "load_config"]
  /\ files = {}
  /\ grid = << >>
  /\ header_config = NoSheetConfig
  /\ pc = "run"
  /\ result = NoResult
  /\ records = << >>
  /\ detected = NoDetection
  /\ answers = NoAnswers
  /\ config_data = NoConfig

\* generate_config(input_file, output_config_file, header_mode) of
\* workspace/data_preprocessing over the sheets of the workbook: the listing
\* of the sheets may fail, the read of a sheet in detection may fail, and
\* the write of the file may fail.
GenerateConfigFile ==
  /\ run.pc = "generate"
  /\ IF GetSheetInfo(run.source, workbook).raised = "ValueError"
     THEN /\ run' = [run EXCEPT !.pc = "done", !.outcome = "unsupported_format"]
          /\ UNCHANGED config_file
     ELSE IF GetSheetInfo(run.source, workbook).raised = "SystemExit"
     THEN /\ run' = [run EXCEPT !.pc = "done", !.outcome = "exited"]
          /\ UNCHANGED config_file
     ELSE \E saved \in BOOLEAN, unreadable \in SUBSET (1..MaxSheets) :
            /\ unreadable \subseteq 1..Len(workbook)
            /\ header_mode = "column" => unreadable = {}
            /\ config_file' =
                 IF saved
                 THEN [exists |-> TRUE, valid |-> TRUE,
                       text |-> JsonDump(GeneratedConfig("book.xlsx", header_mode,
                                                         workbook, unreadable))]
                 ELSE NoConfigFile
            /\ run' = [run EXCEPT !.pc = "load_config",
                                  !.unreadable = unreadable,
                                  !.written = GeneratedConfig("book.xlsx", header_mode,
                                                              workbook, unreadable)]
  /\ UNCHANGED <<workbook, files>>
  /\ UNCHANGED sheetVars

\* The run once the document is parsed: input_file and sheets are looked
\* up, and the loop over the sheets starts when both are there.
RunStarted(loaded) ==
  IF DictGet(loaded, "input_file", "") = "" \/ Len(DictGet(loaded, "sheets", << >>)) = 0
  THEN [run EXCEPT !.pc = "done", !.outcome = "config_not_completed"]
  ELSE [run EXCEPT !.pc = "sheets",
                   !.outcome = "running",
                   !.input_file = DictGet(loaded, "input_file", ""),
                   !.header_mode =
                      IF run.entry = "load_dataframes_from_config"
                      THEN DictGet(loaded, "header_mode", "row") ELSE "row",
                   !.sheets_config = DictGet(loaded, "sheets", << >>),
                   !.sheet_names =
                      AsSeq([i \in 1..Len(DictGet(loaded, "sheets", << >>)) |->
                               DictGet(loaded, "sheets", << >>)[i].k]),
                   !.i = 1]

\* The start of a run, up to the loop over the sheets: the config file is
\* opened and parsed, input_file and sheets are looked up.
LoadConfigFile ==
  /\ run.pc = "load_config"
  /\ run' =
       IF ~config_file.exists
       THEN [run EXCEPT !.pc = "done", !.outcome = "config_not_found"]
       ELSE IF ~config_file.valid
       THEN [run EXCEPT !.pc = "done", !.outcome = "config_wrong_format"]
       ELSE RunStarted(JsonLoad(config_file.text))
  /\ UNCHANGED <<config_file, workbook, files>>
  /\ UNCHANGED sheetVars

\* The cells of the sheet of the workbook with this name.
SheetGrid(sheet_name) ==
  workbook[CHOOSE i \in 1..Len(workbook) : workbook[i].name = sheet_name].grid

\* The run after one pass of its loop: an exception ends the run in the
\* except clause below the loop; main leaves the loop after its first pass.
AfterSheet(done) ==
  IF done.raised
  THEN [run EXCEPT !.pc = "done", !.outcome = "unexpected_error",
                   !.handled = Append(@, done),
                   !.processed_dfs = << >>]
  ELSE [run EXCEPT !.total_records = @ + done.records_count,
                   !.handled = Append(@, done),
                   !.i = IF run.entry = "main" THEN Len(run.sheet_names) + 1 ELSE @ + 1]

\* The records of a loaded sheet: _format_records of the module of the run.
SheetRecords(r, sheet_name) ==
  IF r.outcome # "ok" THEN << >>
  ELSE IF run.entry = "main"
  THEN DockerFormatRecords(r.df, r.metadata_string, sheet_name)
  ELSE FormatRecords(r.df, r.metadata_string)

\* process_single_sheet, or process_single_sheet_with_separated_output, on a
\* sheet that was loaded; each of the writes may fail.
SheetLoaded(sheet_name, outcome, formatted) ==
  IF run.separated_output
  THEN \E failing \in SUBSET (0..(MaxRunRecords - 1)) :
         /\ failing \subseteq 0..(Len(formatted) - 1)
         /\ run' = AfterSheet(ProcessSingleSheetWithSeparatedOutput(
                                files, sheet_name, formatted, outcome, failing))
         /\ files' = ProcessSingleSheetWithSeparatedOutput(
                       files, sheet_name, formatted, outcome, failing).files
  ELSE \E fail \in 0..(MaxRunRecords + 1) :
         /\ fail <= (IF Len(formatted) = 0 THEN 0 ELSE Len(formatted) + 1)
         /\ run' = AfterSheet(ProcessSingleSheet(files, sheet_name, formatted, outcome, fail))
         /\ files' = ProcessSingleSheet(files, sheet_name, formatted, outcome, fail).files

\* _load_and_clean_sheet has returned, or an exception has left it.
SheetCleaned(sheet_name, r) == SheetLoaded(sheet_name, r.outcome, SheetRecords(r, sheet_name))

\* One pass of the loop of process_data_from_config or of main:
\* process_single_sheet, or process_single_sheet_with_separated_output, on
\* the next sheet.
ProcessSheet ==
  /\ run.pc = "sheets"
  /\ run.i <= Len(run.sheet_names)
  /\ run.entry \in {"process_data_from_config", "main"}
  /\ SheetCleaned(run.sheet_names[run.i],
                  LoadAndCleanEntry(SheetGrid(run.sheet_names[run.i]),
                                    run.sheets_config[run.i].v, "row"))
  /\ UNCHANGED <<config_file, workbook>>
  /\ UNCHANGED sheetVars

\* The frame of a sheet is kept under its name, with its ExtraInfo column,
\* unless the load failed or the frame is empty.
FrameLoaded(sheet_name, r) ==
  IF r.outcome = "ok" /\ ~FrameIsEmpty(r.df)
  THEN [AfterSheet(SheetDone(sheet_name, FALSE, Len(r.df.data), << >>, 0, files))
          EXCEPT !.processed_dfs =
            DictSet(@, sheet_name, [df |-> r.df, ExtraInfo |-> r.metadata_string])]
  ELSE AfterSheet(SheetDone(sheet_name, r.outcome = "raised", 0, << >>, 0, files))

\* One pass of the loop of load_dataframes_from_config.
LoadSheetFrame ==
  /\ run.pc = "sheets"
  /\ run.i <= Len(run.sheet_names)
  /\ run.entry = "load_dataframes_from_config"
  /\ run' = FrameLoaded(run.sheet_names[run.i],
                        LoadAndCleanEntry(SheetGrid(run.sheet_names[run.i]),
                                          run.sheets_config[run.i].v, run.header_mode))
  /\ UNCHANGED <<config_file, workbook, files>>
  /\ UNCHANGED sheetVars

\* The loop has ended: the summary is printed (and, in
\* load_dataframes_from_config, processed_dfs is returned).
FinishRun ==
  /\ run.pc = "sheets"
  /\ run.i > Len(run.sheet_names)
  /\ run' = [run EXCEPT !.pc = "done", !.outcome = "complete"]
  /\ UNCHANGED <<config_file, workbook, files>>
  /\ UNCHANGED sheetVars

NextRun ==
  \/ GenerateConfigFile
  \/ LoadConfigFile
  \/ ProcessSheet
  \/ LoadSheetFrame
  \/ FinishRun

SpecRun == InitRun /\ [][NextRun]_vars

(***************************************************************************)
(* The claims about runs, checked under SpecRun.                           *)
(***************************************************************************)
\* The run got past the checks of the config document.
RunReachedSheets == run.outcome \in {"running", "complete", "unexpected_error"}

\* The file of this path among fs, or the empty sequence when there is none.
FileLines(fs, path) ==
  IF \E f \in fs : f.path = path THEN (CHOOSE f \in fs : f.path = path).lines ELSE << >>

RECURSIVE SumCounts(_, _)
SumCounts(handled, n) ==
  IF n = 0 THEN 0 ELSE SumCounts(handled, n - 1) + handled[n].records_count

\* The config document is malformed: no file, no JSON, no input_file, no
\* sheets, or a sheet entry without header_row or merge_rows.
ConfigMalformed ==
  \/ ~config_file.exists
  \/ ~config_file.valid
  \/ DictGet(JsonLoad(config_file.text), "input_file", "") = ""
  \/ Len(DictGet(JsonLoad(config_file.text), "sheets", << >>)) = 0
  \/ \E k \in 1..Len(DictGet(JsonLoad(config_file.text), "sheets", << >>)) :
       ~EntryComplete(DictGet(JsonLoad(config_file.text), "sheets", << >>)[k].v)

\* C12: a run of process_data_from_config or load_dataframes_from_config
\* over several sheets of a well-formed config is not ended by the failure of one sheet: once it is
\* over, it has handled every sheet of the config, in order, and every sheet
\* that loads to a frame with rows is in its result (its file of records, or
\* its frame in processed_dfs).
C12_SheetFailureIsIsolated ==
  (run.pc = "done" /\ RunReachedSheets /\ run.entry # "main"
     /\ ~ConfigMalformed /\ Len(run.sheet_names) > 1) =>
    /\ run.outcome = "complete"
    /\ Len(run.handled) = Len(run.sheet_names)
    /\ \A k \in 1..Len(run.sheet_names) :
         LET r == LoadAndCleanEntry(SheetGrid(run.sheet_names[k]), run.sheets_config[k].v,
                                    run.header_mode)
         IN  (r.outcome = "ok" /\ ~FrameIsEmpty(r.df)) =>
               IF run.entry = "load_dataframes_from_config"
               THEN DictHas(run.processed_dfs, run.sheet_names[k])
               ELSE \/ \E f \in files : f.path = RecordPath(run.sheet_names[k], -1)
                    \/ run.handled[k].records_count = 0

\* C13: a run over a malformed config document ends before any sheet is
\* processed: no sheet was read, no record file was written, no frame kept.
C13_MalformedConfigStopsBeforeSheets ==
  (run.pc \in {"sheets", "done"} /\ ConfigMalformed) =>
    /\ \A k \in 1..Len(run.handled) : ~EntryComplete(run.sheets_config[k].v)
    /\ files = {}
    /\ run.processed_dfs = << >>

\* C14: a run of process_data_from_config or of main handles the sheets in
\* the order the config lists them, each one once, and the total it reports
\* in the summary is the sum of the counts the sheets returned.
C14_EverySheetOnceInOrder ==
  (run.entry \in {"process_data_from_config", "main"} /\ RunReachedSheets) =>
    /\ Len(run.handled) <= Len(run.sheet_names)
    /\ \A k \in 1..Len(run.handled) : run.handled[k].sheet_name = run.sheet_names[k]
    /\ run.total_records = SumCounts(run.handled, Len(run.handled))
    /\ run.outcome = "complete" => Len(run.handled) = Len(run.sheet_names)

C20_SeparatedWrite ==
  (run.entry = "main" /\ run.separated_output /\ RunReachedSheets) =>
    \A k \in 1..Len(run.handled) :
      LET h == run.handled[k]
      IN  ~h.raised =>
            /\ h.records_count = h.written
            /\ h.records_count =
                 Cardinality({i \in 0..(Len(h.records) - 1) :
                                FileLines(h.files, RecordPath(h.sheet_name, i)) =
                                  <<JsonDumps(h.records[i + 1])>>})

\* C21: when the input file has an extension that is no spreadsheet type, or
\* does not exist, get_sheet_info hands the failure to generate_config,
\* which reports it (as an unsupported format, or as a file not found) and
\* returns without writing a config document.
C21_ListSheetsFailureIsReported ==
  (run.pc # "generate" /\ run.pc # "none"
     /\ (run.source.extension \notin {".xlsx", ".xls"} \/ ~run.source.exists)) =>
    /\ run.pc = "done"
    /\ run.outcome = IF run.source.extension \notin {".xlsx", ".xls"}
                     THEN "unsupported_format" ELSE "source_not_found"
    /\ ~config_file.exists
    /\ run.written = << >>

\* C25: a sheet whose read fails in detection is recorded with header_row 1
\* and merge_rows 1, as a sheet without cells is; the other sheets of the
\* workbook are recorded after it and the config is written.
C25_DetectionFailureGivesDefault ==
  /\ DetectOrDefault(<<DetRow(0, 0, 0)>>, DefaultMaxScanRows, FALSE) = <<1, 1>>
  /\ run.written # << >> =>
       /\ Len(DictGet(run.written, "sheets", << >>)) = Len(workbook)
       /\ \A i \in 1..Len(workbook) :
            /\ DictGet(run.written, "sheets", << >>)[i].k = workbook[i].name
            /\ DictGet(run.written, "sheets", << >>)[i].v =
                 IF i \in run.unreadable THEN SheetEntry(1, 1, << >>)
                 ELSE SheetEntry(SheetDetection(workbook[i].grid, header_mode)[1],
                                 SheetDetection(workbook[i].grid, header_mode)[2], << >>)
       /\ config_file.exists => JsonLoad(config_file.text) = run.written

\* A run of C25: the read of the first of two sheets failed, the second was
\* detected with a header ending at row 2, and the config was written.
C25_Witness ==
  /\ run.written # << >>
  /\ run.unreadable = {1}
  /\ Len(workbook) = 2
  /\ workbook[1].grid = ExampleGrid
  /\ DictGet(run.written, "sheets", << >>)[2].v = SheetEntry(2, 2, << >>)
  /\ config_file.exists

\* The header_mode the config document holds.
ConfigHeaderMode == DictGet(JsonLoad(config_file.text), "header_mode", "row")

\* C29: process_data_from_config extracts every sheet with the header_mode of
\* the config document, as load_dataframes_from_config does: the records of
\* a sheet are the rows and columns of its extraction in that mode.
C29_BothEntryPointsApplyHeaderMode ==
  (run.entry = "process_data_from_config" /\ RunReachedSheets) =>
    /\ run.header_mode = ConfigHeaderMode
    /\ \A k \in 1..Len(run.handled) :
         LET r == LoadAndCleanEntry(SheetGrid(run.sheet_names[k]), run.sheets_config[k].v,
                                    ConfigHeaderMode)
         IN  (~run.handled[k].raised /\ r.outcome = "ok") =>
               run.handled[k].records = FormatRecords(r.df, r.metadata_string)

\* C30: at the end of a run of process_data_from_config, every sheet whose
\* records were written has its own file, which holds its own records: no
\* two sheets of the config have the same output path.
C30_EverySheetKeepsItsFile ==
  (run.entry = "process_data_from_config" /\ run.pc = "done"
     /\ run.outcome = "complete") =>
    /\ \A k, q \in 1..Len(run.sheet_names) :
         k # q => RecordPath(run.sheet_names[k], -1) # RecordPath(run.sheet_names[q], -1)
    /\ \A k \in 1..Len(run.handled) :
         run.handled[k].records_count > 0 =>
           FileLines(files, RecordPath(run.handled[k].sheet_name, -1)) =
             [i \in 1..Len(run.handled[k].records) |-> JsonDumps(run.handled[k].records[i])]

====
